---- MODULE Spec2Model ----
(***************************************************************************)
(* State-machine model of the connection-management core of ai-db-studio:  *)
(* the crypto module, the secure store, the connection manager, the IPC    *)
(* handlers and the MongoDB query interpreter.                             *)
(*                                                                         *)
(* Strings are sequences of UTF-16 code units (integers), byte buffers are *)
(* sequences of integers in 0..255, base64 text is a sequence of sextets   *)
(* (0..63) with 64 standing for the padding character '='.                 *)
(***************************************************************************)
EXTENDS Integers, Sequences, FiniteSets, TLC

(***************************************************************************)
(* Bounds of the model.                                                    *)
(***************************************************************************)
\* longest plaintext string given to encrypt() in the crypto specification
MaxStrLen == 2
\* salts and IVs are drawn from 0..MaxSalt / 0..MaxIv (randomBytes)
MaxSalt == 0
MaxIv == 0
\* number of IPC requests issued in one behaviour of the handler specification
MaxReqs == 4
\* number of handler invocations suspended at the same time
MaxInFlight == 3

\* longest persisted connection list
MaxStore == 2
\* Date.now() in the import handler is drawn from 1..MaxTime
MaxTime == 1

VARIABLES
    store,          \* electron-store key 'connections': the persisted list
    ret,            \* what the last direct call of the store / crypto API gave
    ACTIVE_CLIENTS, \* connection/manager.ts: Map<string, ClientInstance>
    clients,        \* every DatabaseClient object constructed so far
    procs,          \* the IPC handler invocations in progress
    resp,           \* the envelope each handler invocation returned
    nreq,           \* number of IPC requests issued so far
    history,        \* query-history entries added by RUN_QUERY
    mongo,          \* the Mongodb client of the interpreter specification
    sqlite          \* the SQLite client of the statement specification

vars == <<store, ret, ACTIVE_CLIENTS, clients, procs, resp, nreq, history, mongo, sqlite>>

(***************************************************************************)
(* Text encodings: Buffer.from(str, 'utf8'), buf.toString('utf8'),         *)
(* buf.toString('base64'), Buffer.from(str, 'base64').                     *)
(***************************************************************************)
IsHighSurrogate(u) == u >= 55296 /\ u <= 56319
IsLowSurrogate(u) == u >= 56320 /\ u <= 57343

\* UTF-8 bytes of one code point
Utf8OfCodePoint(c) ==
    IF c < 128 THEN <<c>>
    ELSE IF c < 2048 THEN <<192 + (c \div 64), 128 + (c % 64)>>
    ELSE IF c < 65536 THEN
        <<224 + (c \div 4096), 128 + ((c \div 64) % 64), 128 + (c % 64)>>
    ELSE <<240 + (c \div 262144), 128 + ((c \div 4096) % 64),
           128 + ((c \div 64) % 64), 128 + (c % 64)>>

\* Buffer.from(s, 'utf8'): a surrogate pair becomes one 4-byte sequence, an
\* unpaired surrogate is replaced by U+FFFD (EF BF BD)
RECURSIVE Utf8Encode(_)
Utf8Encode(s) ==
    IF s = <<>> THEN <<>>
    ELSE IF IsHighSurrogate(s[1]) /\ Len(s) >= 2 /\ IsLowSurrogate(s[2]) THEN
        Utf8OfCodePoint(65536 + (s[1] - 55296) * 1024 + (s[2] - 56320))
            \o Utf8Encode(SubSeq(s, 3, Len(s)))
    ELSE IF IsHighSurrogate(s[1]) \/ IsLowSurrogate(s[1]) THEN
        <<239, 191, 189>> \o Utf8Encode(Tail(s))
    ELSE Utf8OfCodePoint(s[1]) \o Utf8Encode(Tail(s))

\* UTF-16 code units of one code point
Utf16OfCodePoint(c) ==
    IF c < 65536 THEN <<c>>
    ELSE <<55296 + ((c - 65536) \div 1024), 56320 + ((c - 65536) % 1024)>>

\* buf.toString('utf8') on well-formed UTF-8 (the decipher only ever returns
\* the bytes that were encrypted)
RECURSIVE Utf8Decode(_)
Utf8Decode(b) ==
    IF b = <<>> THEN <<>>
    ELSE IF b[1] < 128 THEN <<b[1]>> \o Utf8Decode(Tail(b))
    ELSE IF b[1] < 224 THEN
        Utf16OfCodePoint((b[1] - 192) * 64 + (b[2] - 128))
            \o Utf8Decode(SubSeq(b, 3, Len(b)))
    ELSE IF b[1] < 240 THEN
        Utf16OfCodePoint((b[1] - 224) * 4096 + (b[2] - 128) * 64 + (b[3] - 128))
            \o Utf8Decode(SubSeq(b, 4, Len(b)))
    ELSE
        Utf16OfCodePoint((b[1] - 240) * 262144 + (b[2] - 128) * 4096
                         + (b[3] - 128) * 64 + (b[4] - 128))
            \o Utf8Decode(SubSeq(b, 5, Len(b)))

\* buf.toString('base64'): three bytes give four sextets, '=' (64) pads
RECURSIVE Base64Encode(_)
Base64Encode(b) ==
    IF b = <<>> THEN <<>>
    ELSE IF Len(b) = 1 THEN <<b[1] \div 4, (b[1] % 4) * 16, 64, 64>>
    ELSE IF Len(b) = 2 THEN
        <<b[1] \div 4, (b[1] % 4) * 16 + (b[2] \div 16), (b[2] % 16) * 4, 64>>
    ELSE <<b[1] \div 4, (b[1] % 4) * 16 + (b[2] \div 16),
           (b[2] % 16) * 4 + (b[3] \div 64), b[3] % 64>>
            \o Base64Encode(SubSeq(b, 4, Len(b)))

\* Buffer.from(t, 'base64')
RECURSIVE Base64Decode(_)
Base64Decode(t) ==
    IF Len(t) < 4 THEN <<>>
    ELSE IF t[3] = 64 THEN <<t[1] * 4 + (t[2] \div 16)>>
    ELSE IF t[4] = 64 THEN
        <<t[1] * 4 + (t[2] \div 16), (t[2] % 16) * 16 + (t[3] \div 4)>>
    ELSE <<t[1] * 4 + (t[2] \div 16), (t[2] % 16) * 16 + (t[3] \div 4),
           (t[3] % 4) * 64 + t[4]>>
            \o Base64Decode(SubSeq(t, 5, Len(t)))

(***************************************************************************)
(* JSON.stringify / JSON.parse on the values the secure store serialises:  *)
(* a string (the MongoDB connection string), an object with one string     *)
(* property (the secret-bearing property of the SQL payloads), null, and   *)
(* undefined (for which JSON.stringify returns undefined, not a string).   *)
(***************************************************************************)
Undefined == [kind |-> "undefined"]
JsNull == [kind |-> "null"]
JsString(s) == [kind |-> "string", value |-> s]
JsObject(k, s) == [kind |-> "object", key |-> k, value |-> s]

HexDigit(n) == IF n < 10 THEN 48 + n ELSE 87 + n
HexValue(u) == IF u < 58 THEN u - 48 ELSE u - 87

\* the well-formed JSON.stringify quoting of a string's code units: '"' and
\* '\' are escaped, an unpaired surrogate is written as \udXXX
RECURSIVE JsonQuoteBody(_)
JsonQuoteBody(s) ==
    IF s = <<>> THEN <<>>
    ELSE IF s[1] = 34 \/ s[1] = 92 THEN <<92, s[1]>> \o JsonQuoteBody(Tail(s))
    ELSE IF IsHighSurrogate(s[1]) /\ Len(s) >= 2 /\ IsLowSurrogate(s[2]) THEN
        <<s[1], s[2]>> \o JsonQuoteBody(SubSeq(s, 3, Len(s)))
    ELSE IF IsHighSurrogate(s[1]) \/ IsLowSurrogate(s[1]) THEN
        <<92, 117, HexDigit(s[1] \div 4096), HexDigit((s[1] \div 256) % 16),
          HexDigit((s[1] \div 16) % 16), HexDigit(s[1] % 16)>>
            \o JsonQuoteBody(Tail(s))
    ELSE <<s[1]>> \o JsonQuoteBody(Tail(s))

JsonQuote(s) == <<34>> \o JsonQuoteBody(s) \o <<34>>

\* property names of the payload objects, as code units
KeyChars(k) ==
    IF k = "password" THEN <<112, 97, 115, 115, 119, 111, 114, 100>>
    ELSE <<102, 105, 108, 101, 80, 97, 116, 104>>   \* filePath

KeyOfChars(c) == IF c = KeyChars("password") THEN "password" ELSE "filePath"

\* JSON.stringify(v): Undefined when v is undefined
JsonStringify(v) ==
    IF v.kind = "undefined" THEN Undefined
    ELSE IF v.kind = "null" THEN JsString(<<110, 117, 108, 108>>)
    ELSE IF v.kind = "string" THEN JsString(JsonQuote(v.value))
    ELSE JsString(<<123>> \o JsonQuote(KeyChars(v.key)) \o <<58>>
                  \o JsonQuote(v.value) \o <<125>>)

\* reads a quoted string starting after its opening quote:
\* [value |-> the string, rest |-> the text after the closing quote]
RECURSIVE JsonReadString(_)
JsonReadString(t) ==
    IF t[1] = 34 THEN [value |-> <<>>, rest |-> Tail(t)]
    ELSE IF t[1] = 92 /\ t[2] = 117 THEN
        LET r == JsonReadString(SubSeq(t, 7, Len(t)))
            u == HexValue(t[3]) * 4096 + HexValue(t[4]) * 256
                 + HexValue(t[5]) * 16 + HexValue(t[6])
        IN [value |-> <<u>> \o r.value, rest |-> r.rest]
    ELSE IF t[1] = 92 THEN
        LET r == JsonReadString(SubSeq(t, 3, Len(t)))
        IN [value |-> <<t[2]>> \o r.value, rest |-> r.rest]
    ELSE
        LET r == JsonReadString(Tail(t))
        IN [value |-> <<t[1]>> \o r.value, rest |-> r.rest]

\* JSON.parse(t) on the texts JSON.stringify produces
JsonParse(t) ==
    IF t[1] = 110 THEN JsNull
    ELSE IF t[1] = 34 THEN JsString(JsonReadString(Tail(t)).value)
    ELSE LET k == JsonReadString(SubSeq(t, 3, Len(t)))
             v == JsonReadString(SubSeq(k.rest, 3, Len(k.rest)))
         IN JsObject(KeyOfChars(k.value), v.value)

(***************************************************************************)
(* crypto.ts: AES-256-GCM under a key derived by scrypt.                   *)
(* scrypt and the GCM tag are modelled as ideal (collision-free) functions *)
(* of their byte inputs, the cipher as a keystream XORed onto the text.    *)
(***************************************************************************)
\* a thrown Error object: message, code (NoCode when the property is absent), name
NoCode == "(none)"
ThrownWith(msg, code, name) == [ok |-> FALSE, message |-> msg, code |-> code, name |-> name]
Thrown(msg) == ThrownWith(msg, NoCode, "Error")
Returned(v) == [ok |-> TRUE, value |-> v]

RECURSIVE SumBytes(_)
SumBytes(b) == IF b = <<>> THEN 0 ELSE b[1] + SumBytes(Tail(b))

RECURSIVE XorBits(_, _, _)
XorBits(a, b, n) ==
    IF n = 0 THEN 0
    ELSE ((a + b) % 2) + 2 * XorBits(a \div 2, b \div 2, n - 1)

\* scryptSync(password, salt, KEY_LENGTH): a string password is converted to
\* bytes as UTF-8 before the derivation
scryptSync(password, salt) == [pw |-> Utf8Encode(password), salt |-> salt]

\* the keystream byte the cipher XORs onto byte i
KeyStream(key, iv, i) ==
    (SumBytes(key.pw) * 31 + SumBytes(key.salt) * 17 + SumBytes(iv) * 13
     + i * 7 + 5) % 256

\* cipher.update + cipher.final / decipher.update + decipher.final on bytes
CipherBytes(key, iv, b) ==
    [i \in 1..Len(b) |-> XorBits(b[i], KeyStream(key, iv, i), 8)]

\* cipher.getAuthTag(): binds the key, the IV and the ciphertext
AuthTag(key, iv, ct) == [key |-> key, iv |-> iv, ct |-> ct]

\* encrypt(text, password); salt and iv are the two randomBytes() results
encrypt(text, password, salt, iv) ==
    IF text.kind # "string" THEN
        Thrown("The \"data\" argument must be of type string")
    ELSE
        LET key == scryptSync(password, salt)
            ct == CipherBytes(key, iv, Utf8Encode(text.value))
        IN Returned([fmt |-> "envelope",
                     salt |-> Base64Encode(salt),
                     iv |-> Base64Encode(iv),
                     authTag |-> AuthTag(key, iv, ct),
                     encrypted |-> Base64Encode(ct)])

\* decrypt deriving the key from the salt's base64 text instead of its bytes
decryptSaltNotDecoded(cipherText, password) ==
    IF cipherText.fmt # "envelope" THEN Thrown("Unexpected token in JSON")
    ELSE
        LET iv == Base64Decode(cipherText.iv)
            key == scryptSync(password, cipherText.salt)
            ct == Base64Decode(cipherText.encrypted)
        IN IF AuthTag(key, iv, ct) # cipherText.authTag
           THEN Thrown("Unsupported state or unable to authenticate data")
           ELSE Returned(Utf8Decode(CipherBytes(key, iv, ct)))

\* decrypt that never sets or verifies the authentication tag
decryptUnauthenticated(cipherText, password) ==
    IF cipherText.fmt # "envelope" THEN Thrown("Unexpected token in JSON")
    ELSE
        LET salt == Base64Decode(cipherText.salt)
            iv == Base64Decode(cipherText.iv)
            key == scryptSync(password, salt)
            ct == Base64Decode(cipherText.encrypted)
        IN Returned(CipherBytes(key, iv, ct))

\* decrypt(cipherText, password): decipher.final() throws when the tag does
\* not verify; a text that is no envelope fails in JSON.parse / Buffer.from
decrypt(cipherText, password) ==
    IF cipherText.fmt # "envelope" THEN Thrown("Unexpected token in JSON")
    ELSE
        LET salt == Base64Decode(cipherText.salt)
            iv == Base64Decode(cipherText.iv)
            key == scryptSync(password, salt)
            ct == Base64Decode(cipherText.encrypted)
        IN IF AuthTag(key, iv, ct) # cipherText.authTag
           THEN Thrown("Unsupported state or unable to authenticate data")
           ELSE Returned(Utf8Decode(CipherBytes(key, iv, ct)))

(***************************************************************************)
(* types/index.ts and store/secure-store.ts                                *)
(***************************************************************************)
DbType == {"postgresql", "mongodb", "mysql", "sqlite3"}

\* connection ids; `${id}-${timestamp}` is Append(id, timestamp)
\* connection names are sequences of text pieces; `${name} (Imported)` is
\* Append(name, " (Imported)")
Ids == {<<"a">>, <<"b">>}
Names == {<<"n1">>}
\* passphrases: 'p', 'q', and two different unpaired surrogates
Passphrases == {<<112>>, <<113>>, <<55357>>, <<55358>>}
\* the secret of a payload: 's', a quote, an unpaired high surrogate
Secrets == {<<115, 34, 55357>>}
Salts == {<<n>> : n \in 0..MaxSalt}
IVs == {<<n>> : n \in 0..MaxIv}

\* the engine-specific payload of a well-formed ConnectionConfig
PayloadOf(type, secret) ==
    IF type = "mongodb" THEN JsString(secret)
    ELSE IF type = "sqlite3" THEN JsObject("filePath", secret)
    ELSE JsObject("password", secret)

\* a ConnectionConfig whose only payload is the one matching its type
ConnectionConfig(id, name, type, secret) ==
    [id |-> id, name |-> name, type |-> type,
     postgresql |-> IF type = "postgresql" THEN PayloadOf(type, secret) ELSE Undefined,
     mongodb |-> IF type = "mongodb" THEN PayloadOf(type, secret) ELSE Undefined,
     mysql |-> IF type = "mysql" THEN PayloadOf(type, secret) ELSE Undefined,
     sqlite3 |-> IF type = "sqlite3" THEN PayloadOf(type, secret) ELSE Undefined]

Configs ==
    {ConnectionConfig(id, name, type, secret) :
        id \in Ids, name \in Names, type \in DbType, secret \in Secrets}

\* getConfig(dbType) inside saveEncryptedConnection
getConfig(config) ==
    IF config.type = "postgresql" THEN config.postgresql
    ELSE IF config.type = "mongodb" THEN config.mongodb
    ELSE IF config.type = "mysql" THEN config.mysql
    ELSE IF config.type = "sqlite3" THEN config.sqlite3
    ELSE JsNull

getAllConnections == store

\* saveEncryptedConnection(config, encryptionKey): the list it stores, or the
\* exception of encrypt()
saveEncryptedConnection(config, encryptionKey, salt, iv) ==
    LET obj == getConfig(config)
        encrypted == encrypt(JsonStringify(obj), encryptionKey, salt, iv)
    IN IF ~encrypted.ok THEN encrypted
       ELSE Returned(Append(getAllConnections,
                [id |-> config.id, name |-> config.name, type |-> config.type,
                 encryptedConfig |-> encrypted.value]))

\* connections.find((conn) => conn.id === id): index of the first match, 0 if none
FindIndex(id) ==
    IF \E i \in 1..Len(store) : store[i].id = id
    THEN CHOOSE i \in 1..Len(store) :
            /\ store[i].id = id
            /\ \A j \in 1..(i - 1) : store[j].id # id
    ELSE 0

\* { ...connection, [connection.type]: value }
WithPayload(connection, value) ==
    [id |-> connection.id, name |-> connection.name, type |-> connection.type,
     encryptedConfig |-> connection.encryptedConfig,
     postgresql |-> IF connection.type = "postgresql" THEN value ELSE Undefined,
     mongodb |-> IF connection.type = "mongodb" THEN value ELSE Undefined,
     mysql |-> IF connection.type = "mysql" THEN value ELSE Undefined,
     sqlite3 |-> IF connection.type = "sqlite3" THEN value ELSE Undefined]

\* getDecryptedConnection(id, encryptionKey)
getDecryptedConnection(id, encryptionKey) ==
    LET i == FindIndex(id)
    IN IF i = 0 THEN Thrown("Connection not found")
       ELSE LET d == decrypt(store[i].encryptedConfig, encryptionKey)
            IN IF ~d.ok
               THEN Thrown("Failed to decrypt configuration. Wrong encryption key?")
               ELSE Returned(WithPayload(store[i], JsonParse(d.value)))

\* a deleteConnection whose filter is inverted
deleteConnectionInverted(id) == SelectSeq(getAllConnections, LAMBDA conn : conn.id = id)

\* deleteConnection(id): the list it stores
deleteConnection(id) == SelectSeq(getAllConnections, LAMBDA conn : conn.id # id)

\* an update that renames every record
updateEncryptedConnectionAll(id, name) ==
    [i \in 1..Len(store) |-> [store[i] EXCEPT !.name = name]]

\* updateEncryptedConnection(id, name): the list it stores
updateEncryptedConnection(id, name) ==
    [i \in 1..Len(store) |->
        IF store[i].id = id THEN [store[i] EXCEPT !.name = name] ELSE store[i]]

(***************************************************************************)
(* utils/error-handler.ts                                                  *)
(***************************************************************************)
\* the substrings, among those the handlers probe with String.includes, that
\* each error message of the model contains
MessageWords(msg) ==
    CASE msg = "Failed to decrypt configuration. Wrong encryption key?"
            -> {"decrypt", "encrypt", "key"}
      [] msg = "connect ECONNREFUSED 127.0.0.1:5432" -> {"connect"}
      [] msg = "database \"monkey\" does not exist" -> {"key"}
      [] msg = "MySQL connection failed: connect ETIMEDOUT" -> {"connect"}
      [] msg = "MySQL connection failed: Access denied for user 'root'@'localhost' (using password: YES)"
            -> {"connect"}
      [] msg = "MySQL connection failed: Connection lost: The server closed the connection."
            -> {"connect"}
      [] msg = "SQLite connection failed: attempt to write a readonly database"
            -> {"connect"}
      [] msg = "Please specify a valid database name in the connection string."
            -> {"connect"}
      [] msg = "timeout expired" -> {"timeout"}
      [] msg = "SQLITE_LOCKED: database table is locked" -> {"SQLITE_", "SQLITE_LOCKED"}
      [] msg = "SQLite connection failed: SQLITE_CANTOPEN: unable to open database file"
            -> {"connect", "SQLITE_", "SQLITE_CANTOPEN"}
      [] msg = "Failed to ping MongoDB: Server selection timed out" -> {}
      [] msg = "Invalid MongoDB query format. Supported operations: find, aggregate"
            -> {}
      [] OTHER -> {}

Includes(msg, word) == word \in MessageWords(msg)

\* a createError that drops its retryable argument
createErrorNotRetryable(type, code, retryable) ==
    [type |-> type, message |-> "(message)", code |-> code, retryable |-> FALSE,
     timestamp |-> "(now)"]

\* createError: the message text and the clock reading are kept as tokens
createError(type, code, retryable) ==
    [type |-> type, message |-> "(message)", code |-> code, retryable |-> retryable,
     timestamp |-> "(now)"]

handleDatabaseError(error) ==
    IF error.code \in {"ER_ACCESS_DENIED_ERROR", "ER_DBACCESS_DENIED_ERROR"}
    THEN createError("AUTHENTICATION_ERROR", error.code, FALSE)
    ELSE IF error.code = "ER_BAD_DB_ERROR"
    THEN createError("DATABASE_ERROR", error.code, FALSE)
    ELSE IF error.code \in {"ECONNREFUSED", "ENOTFOUND", "ETIMEDOUT"}
    THEN createError("CONNECTION_ERROR", error.code, TRUE)
    ELSE IF error.code \in {"ER_PARSE_ERROR", "ER_SYNTAX_ERROR"}
    THEN createError("QUERY_ERROR", error.code, FALSE)
    ELSE IF error.code \in {"28P01", "28000"}
    THEN createError("AUTHENTICATION_ERROR", error.code, FALSE)
    ELSE IF Includes(error.message, "SQLITE_") /\ Includes(error.message, "SQLITE_CANTOPEN")
    THEN createError("FILE_ERROR", "SQLITE_CANTOPEN", FALSE)
    ELSE IF Includes(error.message, "SQLITE_") /\ Includes(error.message, "SQLITE_LOCKED")
    THEN createError("DATABASE_ERROR", "SQLITE_LOCKED", TRUE)
    ELSE IF error.name = "MongoServerError" /\ error.code = "18"
    THEN createError("AUTHENTICATION_ERROR", "18", FALSE)
    ELSE IF Includes(error.message, "timeout")
    THEN createError("TIMEOUT_ERROR", error.code, TRUE)
    ELSE IF Includes(error.message, "connect")
    THEN createError("CONNECTION_ERROR", error.code, TRUE)
    ELSE createError("DATABASE_ERROR", error.code, FALSE)

handleFileError(error) == createError("FILE_ERROR", error.code, FALSE)

handleValidationError == createError("VALIDATION_ERROR", NoCode, FALSE)

\* a handleEncryptionError that invites a retry
handleEncryptionErrorRetryable(error) == createError("ENCRYPTION_ERROR", error.code, TRUE)

handleEncryptionError(error) == createError("ENCRYPTION_ERROR", error.code, FALSE)

handleUnknownError(error) == createError("UNKNOWN_ERROR", error.code, FALSE)

formatErrorResponse(appError) ==
    [success |-> FALSE, error |-> appError.message, errorType |-> appError.type,
     errorCode |-> appError.code, retryable |-> appError.retryable,
     timestamp |-> appError.timestamp]

\* formatSuccessResponse(data): the payload is kept under one field
formatSuccessResponse(data) == [success |-> TRUE, data |-> data]

(***************************************************************************)
(* ipc/handlers.ts: IMPORT_CONNECTIONS, from the file content onwards.     *)
(* The export file is {format, data}; data is the envelope of the JSON of  *)
(* {version, exportDate, connections}. The file's envelope is kept sealed: *)
(* it opens under a passphrase with the same key bytes as the one it was   *)
(* written with.                                                           *)
(***************************************************************************)
FormatTag == "ai-db-studio-encrypted"
ImportStrategy == {"replace", "merge", "skip-duplicates"}
Times == 1..MaxTime

\* the record saveEncryptedConnection appends for a config
StoredConnection(config, key, salt, iv) ==
    [id |-> config.id, name |-> config.name, type |-> config.type,
     encryptedConfig |-> encrypt(JsonStringify(getConfig(config)), key, salt, iv).value]

\* decrypt(fileData.data, encryptionKey) on the sealed file envelope
decryptFile(file, encryptionKey) ==
    IF Utf8Encode(file.key) = Utf8Encode(encryptionKey)
    THEN Returned(file.content)
    ELSE Thrown("Unsupported state or unable to authenticate data")

\* a merge in which the imported record wins on an id conflict
MergeImportedWins(existing, imported) ==
    SelectSeq(existing,
        LAMBDA conn : \A i \in 1..Len(imported) : imported[i].id # conn.id) \o imported

\* case 'merge'
MergeConnections(existing, imported) ==
    existing \o SelectSeq(imported,
        LAMBDA conn : \A i \in 1..Len(existing) : existing[i].id # conn.id)

\* case 'skip-duplicates': the forEach over the imported list, then the
\* existing list appended. seen is idMap's key set.
RECURSIVE SkipDuplicates(_, _, _)
SkipDuplicates(imported, seen, timestamp) ==
    IF imported = <<>> THEN <<>>
    ELSE LET conn == Head(imported)
         IN IF conn.id \in seen
            THEN <<[conn EXCEPT !.id = Append(conn.id, timestamp),
                                !.name = Append(conn.name, " (Imported)")]>>
                    \o SkipDuplicates(Tail(imported), seen, timestamp)
            ELSE <<conn>>
                    \o SkipDuplicates(Tail(imported), seen \cup {conn.id}, timestamp)

\* the switch over the strategy; a value outside ImportStrategy matches no case
ResultConnections(existing, imported, strategy, timestamp) ==
    IF strategy = "replace" THEN imported
    ELSE IF strategy = "merge" THEN MergeConnections(existing, imported)
    ELSE IF strategy = "skip-duplicates" THEN
        SkipDuplicates(imported, {existing[i].id : i \in 1..Len(existing)}, timestamp)
            \o existing
    ELSE <<>>

\* an import that opens the envelope before it looks at the format tag
ImportConnectionsDecryptFirst(file, encryptionKey, strategy, timestamp) ==
    LET d == decryptFile(file, encryptionKey)
    IN IF ~d.ok
       THEN [resp |-> formatErrorResponse(handleEncryptionError(d)), store |-> store]
       ELSE IF file.format # FormatTag \/ d.value.kind # "list"
       THEN [resp |-> formatErrorResponse(handleValidationError), store |-> store]
       ELSE LET result == ResultConnections(getAllConnections, d.value.connections,
                                            strategy, timestamp)
            IN [resp |-> formatSuccessResponse(
                           [importedCount |-> Len(d.value.connections),
                            totalConnections |-> Len(result)]),
                store |-> result]

\* IMPORT_CONNECTIONS once the file has been read and parsed:
\* [resp |-> the envelope returned, store |-> the persisted list afterwards]
ImportConnections(file, encryptionKey, strategy, timestamp) ==
    IF file.format # FormatTag
    THEN [resp |-> formatErrorResponse(handleValidationError), store |-> store]
    ELSE LET d == decryptFile(file, encryptionKey)
         IN IF ~d.ok
            THEN [resp |-> formatErrorResponse(handleEncryptionError(d)), store |-> store]
            ELSE IF d.value.kind # "list"
            THEN [resp |-> formatErrorResponse(handleValidationError), store |-> store]
            ELSE LET result == ResultConnections(getAllConnections, d.value.connections,
                                                 strategy, timestamp)
                 IN [resp |-> formatSuccessResponse(
                                [importedCount |-> Len(d.value.connections),
                                 totalConnections |-> Len(result)]),
                     store |-> result]

(***************************************************************************)
(* Initial state: an empty persisted list, an empty registry, no client,   *)
(* no handler running.                                                     *)
(***************************************************************************)
NoRet == [op |-> "none"]

\* the Mongodb client before its first executeQuery: n counts the executeQuery
\* calls, handles the db.collection() calls, evals the evaluations of argument
\* text, calls the find() and aggregate() calls on a collection
MongoIdle ==
    [pc |-> "idle", n |-> 0, query |-> <<>>, handles |-> 0, evals |-> 0,
     calls |-> 0, call |-> [op |-> "none"], driver |-> [op |-> "none"],
     result |-> [op |-> "none"]]

\* the SQLite client before connect(): db is whether this.db is set, n counts
\* the executeQuery calls, stmt is the Statement method that was called
SqliteIdle ==
    [db |-> FALSE, n |-> 0, query |-> <<>>, stmt |-> "none",
     driver |-> [op |-> "none"], result |-> [op |-> "none"]]

EmptyMap == [k \in {} |-> {}]

Init ==
    /\ store = <<>>
    /\ ret = NoRet
    /\ ACTIVE_CLIENTS = EmptyMap
    /\ clients = <<>>
    /\ procs = EmptyMap
    /\ resp = [n |-> 0]
    /\ nreq = 0
    /\ history = <<>>
    /\ mongo = MongoIdle
    /\ sqlite = SqliteIdle

handlerVars == <<ACTIVE_CLIENTS, clients, procs, resp, nreq, history>>

(***************************************************************************)
(* Specification SpecStore: the crypto and secure-store API and the import *)
(* handler called directly, one call at a time.                            *)
(***************************************************************************)
\* code units of the plaintexts: 'a', e-acute (2 bytes), euro sign (3 bytes),
\* a high and a low surrogate (4 bytes as a pair, U+FFFD when unpaired)
CodeUnits == {97, 233, 8364, 55357, 56832}

RECURSIVE StringsUpTo(_)
StringsUpTo(n) ==
    IF n = 0 THEN {<<>>}
    ELSE LET shorter == StringsUpTo(n - 1)
         IN shorter \cup {Append(s, u) : s \in shorter, u \in CodeUnits}

Strings == StringsUpTo(MaxStrLen)

\* passphrases of the store-level calls
StoreKeys == {<<112>>, <<113>>}

\* a string with no unpaired surrogate
RECURSIVE WellFormed(_)
WellFormed(s) ==
    IF s = <<>> THEN TRUE
    ELSE IF IsHighSurrogate(s[1]) THEN
        Len(s) >= 2 /\ IsLowSurrogate(s[2]) /\ WellFormed(SubSeq(s, 3, Len(s)))
    ELSE ~IsLowSurrogate(s[1]) /\ WellFormed(Tail(s))

\* a sample config per id for the records of import files
SampleConfig(id) == ConnectionConfig(id, <<"n1">>, "postgresql", <<115, 34, 55357>>)
Exported(id) == StoredConnection(SampleConfig(id), <<112>>, <<0>>, <<0>>)
\* a record that carries the payload next to the envelope
WithPlainPayload(id) ==
    [id |-> id, name |-> <<"n1">>, type |-> "postgresql",
     encryptedConfig |-> Exported(id).encryptedConfig,
     postgresql |-> getConfig(SampleConfig(id))]
\* a record whose encryptedConfig is the payload's JSON text, not an envelope
WithRawConfig(id) ==
    [id |-> id, name |-> <<"n1">>, type |-> "postgresql",
     encryptedConfig |-> [fmt |-> "raw",
                          text |-> JsonStringify(getConfig(SampleConfig(id))).value]]

ImportLists ==
    {<<>>, <<Exported(<<"a">>)>>, <<Exported(<<"b">>)>>,
     <<Exported(<<"a">>), Exported(<<"b">>)>>,
     <<WithPlainPayload(<<"a">>)>>, <<WithRawConfig(<<"b">>)>>}

ImportContents ==
    {[kind |-> "list", connections |-> l] : l \in ImportLists}
        \cup {[kind |-> "missing"], [kind |-> "notlist"], [kind |-> "notjson"]}

\* files written under the passphrase 'p': every content under the right
\* format tag, and one file with another tag
ImportFiles ==
    {[format |-> FormatTag, key |-> <<112>>, content |-> c] : c \in ImportContents}
        \cup {[format |-> "other", key |-> <<112>>,
               content |-> [kind |-> "list", connections |-> <<Exported(<<"a">>)>>]]}

StoreCall == ret.op \notin {"encrypt", "decrypt"}

CryptoEncrypt ==
    /\ ret = NoRet /\ store = <<>>
    /\ \E text \in Strings, password \in Passphrases, salt \in Salts, iv \in IVs :
        ret' = [op |-> "encrypt", text |-> text, password |-> password,
                result |-> encrypt(JsString(text), password, salt, iv)]
    /\ UNCHANGED <<store, handlerVars, mongo, sqlite>>

CryptoDecrypt ==
    /\ ret.op = "encrypt" /\ ret.result.ok
    /\ \E password \in Passphrases :
        ret' = [op |-> "decrypt", text |-> ret.text, p1 |-> ret.password,
                p2 |-> password, result |-> decrypt(ret.result.value, password)]
    /\ UNCHANGED <<store, handlerVars, mongo, sqlite>>

StoreSave ==
    /\ StoreCall /\ Len(store) < MaxStore
    /\ \E config \in Configs, key \in StoreKeys, salt \in Salts, iv \in IVs :
        LET r == saveEncryptedConnection(config, key, salt, iv)
        IN /\ store' = IF r.ok THEN r.value ELSE store
           /\ ret' = [op |-> "save", config |-> config, key |-> key, ok |-> r.ok]
    /\ UNCHANGED <<handlerVars, mongo, sqlite>>

StoreGet ==
    /\ StoreCall
    /\ \E id \in Ids, key \in StoreKeys :
        ret' = [op |-> "get", id |-> id, key |-> key,
                result |-> getDecryptedConnection(id, key),
                after |-> IF ret.op = "save" THEN ret ELSE NoRet]
    /\ UNCHANGED <<store, handlerVars, mongo, sqlite>>

StoreUpdate ==
    /\ StoreCall
    /\ \E id \in Ids, name \in {<<"n2">>} :
        /\ store' = updateEncryptedConnection(id, name)
        /\ ret' = [op |-> "update", id |-> id, name |-> name]
    /\ UNCHANGED <<handlerVars, mongo, sqlite>>

StoreDelete ==
    /\ StoreCall
    /\ \E id \in Ids :
        /\ store' = deleteConnection(id)
        /\ ret' = [op |-> "delete", id |-> id]
    /\ UNCHANGED <<handlerVars, mongo, sqlite>>

StoreImport ==
    /\ StoreCall
    /\ \E file \in ImportFiles, key \in StoreKeys,
          strategy \in ImportStrategy, timestamp \in Times :
        LET r == ImportConnections(file, key, strategy, timestamp)
        IN /\ Len(r.store) <= MaxStore
           /\ store' = r.store
           /\ ret' = [op |-> "import", strategy |-> strategy, resp |-> r.resp]
    /\ UNCHANGED <<handlerVars, mongo, sqlite>>

NextStore ==
    \/ CryptoEncrypt
    \/ CryptoDecrypt
    \/ StoreSave
    \/ StoreGet
    \/ StoreUpdate
    \/ StoreDelete
    \/ StoreImport

SpecStore == Init /\ [][NextStore]_vars

(***************************************************************************)
(* saveEncryptedConnection on its own, called with configs of the four     *)
(* engines and with configs whose type is none of them.                    *)
(***************************************************************************)
\* a config whose type is not a DbType: with no payload, and with the
\* payload of another engine next to it
UnknownTypeConfigs ==
    {ConnectionConfig(id, <<"n1">>, "oracle", secret) : id \in Ids, secret \in Secrets}
        \cup {[ConnectionConfig(id, <<"n1">>, "postgresql", secret) EXCEPT !.type = "oracle"] :
                 id \in Ids, secret \in Secrets}

SaveEncrypted ==
    /\ Len(store) < MaxStore
    /\ \E config \in Configs \cup UnknownTypeConfigs, key \in StoreKeys,
          salt \in Salts, iv \in IVs :
        LET r == saveEncryptedConnection(config, key, salt, iv)
        IN /\ store' = IF r.ok THEN r.value ELSE store
           /\ ret' = [op |-> "saveEncrypted", config |-> config, key |-> key,
                      before |-> store, ok |-> r.ok]
    /\ UNCHANGED <<handlerVars, mongo, sqlite>>

SpecSaveEncrypted == Init /\ [][SaveEncrypted]_vars

(***************************************************************************)
(* ErrorHandler on its own: each translation applied to the errors the     *)
(* drivers and the file system throw, and the createError calls of the     *)
(* handlers.                                                               *)
(***************************************************************************)
ErrorCodes ==
    {NoCode, "ER_ACCESS_DENIED_ERROR", "ER_DBACCESS_DENIED_ERROR", "ER_BAD_DB_ERROR",
     "ECONNREFUSED", "ENOTFOUND", "ETIMEDOUT", "ER_PARSE_ERROR", "ER_SYNTAX_ERROR",
     "28P01", "28000", "3D000", "ENOENT", "EACCES"}

ErrorMessages ==
    {"Failed to decrypt configuration. Wrong encryption key?",
     "connect ECONNREFUSED 127.0.0.1:5432",
     "database \"monkey\" does not exist",
     "timeout expired",
     "SQLITE_LOCKED: database table is locked",
     "SQLite connection failed: SQLITE_CANTOPEN: unable to open database file",
     "permission denied for schema"}

ErrorInputs ==
    {ThrownWith(msg, code, name) :
        msg \in ErrorMessages, code \in ErrorCodes, name \in {"Error", "error"}}

\* what ret keeps of a translation
Translated(op, error, appError) ==
    [op |-> op, error |-> error, envelope |-> formatErrorResponse(appError)]

HandleDatabaseError ==
    /\ \E error \in ErrorInputs :
        ret' = Translated("handleDatabaseError", error, handleDatabaseError(error))
    /\ UNCHANGED <<store, handlerVars, mongo, sqlite>>

HandleFileError ==
    /\ \E error \in ErrorInputs :
        ret' = Translated("handleFileError", error, handleFileError(error))
    /\ UNCHANGED <<store, handlerVars, mongo, sqlite>>

HandleValidationError ==
    /\ ret' = Translated("handleValidationError", NoRet, handleValidationError)
    /\ UNCHANGED <<store, handlerVars, mongo, sqlite>>

HandleEncryptionError ==
    /\ \E error \in ErrorInputs :
        ret' = Translated("handleEncryptionError", error, handleEncryptionError(error))
    /\ UNCHANGED <<store, handlerVars, mongo, sqlite>>

HandleUnknownError ==
    /\ \E error \in ErrorInputs :
        ret' = Translated("handleUnknownError", error, handleUnknownError(error))
    /\ UNCHANGED <<store, handlerVars, mongo, sqlite>>

\* the createError calls of RUN_QUERY, ASK_AI and EXPORT_QUERY_RESULTS
HandlerCreateError ==
    /\ \E appError \in {createError("CONNECTION_ERROR", "NO_ACTIVE_CONNECTION", TRUE),
                        createError("EXPORT_ERROR", NoCode, TRUE)} :
        ret' = Translated("createError", NoRet, appError)
    /\ UNCHANGED <<store, handlerVars, mongo, sqlite>>

NextErrors ==
    \/ HandleDatabaseError
    \/ HandleFileError
    \/ HandleValidationError
    \/ HandleEncryptionError
    \/ HandleUnknownError
    \/ HandlerCreateError

SpecErrors == Init /\ [][NextErrors]_vars

(***************************************************************************)
(* IMPORT_CONNECTIONS on its own: imports, one after the other, into a     *)
(* persisted list, with the file, the passphrase, the strategy and the     *)
(* list before the call kept in ret.                                       *)
(***************************************************************************)
MaxImported == 3

\* files whose list names an id twice, next to those of ImportFiles
ImportedFiles ==
    ImportFiles \cup
        {[format |-> FormatTag, key |-> <<112>>,
          content |-> [kind |-> "list",
                       connections |-> <<Exported(<<"a">>), WithPlainPayload(<<"a">>)>>]]}

Import ==
    \E file \in ImportedFiles, key \in StoreKeys,
       strategy \in ImportStrategy, timestamp \in Times :
        LET r == ImportConnections(file, key, strategy, timestamp)
        IN /\ Len(r.store) <= MaxImported
           /\ store' = r.store
           /\ ret' = [op |-> "import", file |-> file, key |-> key,
                      strategy |-> strategy, timestamp |-> timestamp,
                      before |-> store, resp |-> r.resp]
           /\ UNCHANGED <<handlerVars, mongo, sqlite>>

\* the persisted lists an import starts from
ImportStores ==
    {<<>>, <<Exported(<<"a">>)>>, <<Exported(<<"b">>)>>,
     <<Exported(<<"b">>), Exported(<<"a">>)>>}

InitImport ==
    /\ store \in ImportStores
    /\ ret = NoRet
    /\ ACTIVE_CLIENTS = EmptyMap
    /\ clients = <<>>
    /\ procs = EmptyMap
    /\ resp = [n |-> 0]
    /\ nreq = 0
    /\ history = <<>>
    /\ mongo = MongoIdle
    /\ sqlite = SqliteIdle

SpecImport == InitImport /\ [][Import]_vars

(***************************************************************************)
(* db/index.ts, connection/manager.ts and ipc/handlers.ts.                 *)
(*                                                                         *)
(* A handler invocation is suspended only where it awaits driver I/O       *)
(* (connect, schema introspection, disconnect, executeQuery); the code     *)
(* between two such points runs as one step of the event loop.             *)
(* clients[c] is a DatabaseClient object: state is the state of its driver *)
(* handle, disc what became of a disconnect() call on it, queries the      *)
(* number of executeQuery() calls, installed whether ACTIVE_CLIENTS.set    *)
(* stored it, removed whether removeActiveClient deleted the registry      *)
(* entry that held it.                                                     *)
(***************************************************************************)
Schemas == {"t1", "t2"}
Queries == {"q1"}

ConnectError == ThrownWith("connect ECONNREFUSED 127.0.0.1:5432", "ECONNREFUSED", "Error")
\* what PostgreSQL answers for a database name it does not know
ConnectKeyError == ThrownWith("database \"monkey\" does not exist", "3D000", "error")
ConnectErrors == {ConnectError, ConnectKeyError}
IntrospectError == Thrown("permission denied for schema")

\* what mysql2 rejects createConnection() with when the credentials are wrong
MySqlAccessDenied ==
    ThrownWith("Access denied for user 'root'@'localhost' (using password: YES)",
               "ER_ACCESS_DENIED_ERROR", "Error")
\* what mysql2 rejects ping() with when the server drops the connection
MySqlPingLost ==
    ThrownWith("Connection lost: The server closed the connection.",
               "PROTOCOL_CONNECTION_LOST", "Error")

\* the catch block of MySQL.connect: a new Error that keeps the message only
MySQLConnectCatch(error) ==
    Thrown(CASE error = MySqlAccessDenied ->
                  "MySQL connection failed: Access denied for user 'root'@'localhost' (using password: YES)"
             [] error = MySqlPingLost ->
                  "MySQL connection failed: Connection lost: The server closed the connection."
             [] OTHER -> "MySQL connection failed: connect ETIMEDOUT")

\* the ways connect() of a client of the given type fails: error is what it
\* throws, signal the code of the driver error behind it, state what
\* becomes of the driver handle ("failed": none was opened, "half-open": it
\* was opened before the throw and connect() did not close it)
ConnectFailures(type) ==
    CASE type = "postgresql" ->
            {[error |-> e, signal |-> e.code, state |-> "failed"] : e \in ConnectErrors}
      [] type = "mysql" ->
            {[error |-> MySQLConnectCatch(MySqlAccessDenied),
              signal |-> MySqlAccessDenied.code, state |-> "failed"],
             [error |-> MySQLConnectCatch(MySqlPingLost),
              signal |-> MySqlPingLost.code, state |-> "half-open"]}
      [] type = "sqlite3" ->
            {[error |-> Thrown("SQLite connection failed: SQLITE_CANTOPEN: unable to open database file"),
              signal |-> "SQLITE_CANTOPEN", state |-> "failed"],
             [error |-> Thrown("SQLite connection failed: attempt to write a readonly database"),
              signal |-> "SQLITE_READONLY", state |-> "half-open"]}
      [] type = "mongodb" ->
            {[error |-> ConnectError, signal |-> ConnectError.code, state |-> "failed"],
             [error |-> Thrown("Please specify a valid database name in the connection string."),
              signal |-> NoCode, state |-> "half-open"],
             [error |-> Thrown("Failed to ping MongoDB: Server selection timed out"),
              signal |-> NoCode, state |-> "half-open"]}
DisconnectError == Thrown("socket hang up")
QueryError == ThrownWith("You have an error in your SQL syntax", "ER_PARSE_ERROR", "Error")

\* createDatabaseClient(config): the new client object, or the exception
createDatabaseClient(config, by) ==
    IF config.type \in DbType
    THEN Returned([type |-> config.type, id |-> config.id, by |-> by,
                   state |-> "new", signal |-> NoCode, disc |-> "none", queries |-> 0,
                   installed |-> FALSE, removed |-> FALSE])
    ELSE Thrown("Unsupported database type")

\* a lookup that never finds the entry
getActiveClientMiss(id) == JsNull

getActiveClient(id) == IF id \in DOMAIN ACTIVE_CLIENTS THEN ACTIVE_CLIENTS[id] ELSE JsNull

\* ACTIVE_CLIENTS.set(id, instance)
MapSet(id, instance) == (id :> instance) @@ ACTIVE_CLIENTS

\* ACTIVE_CLIENTS.delete(id)
MapDelete(id) == [k \in DOMAIN ACTIVE_CLIENTS \ {id} |-> ACTIVE_CLIENTS[k]]

\* the request p completes with envelope e
Complete(p, op, id, e) ==
    /\ resp' = [n |-> p, op |-> op, id |-> id, envelope |-> e]
    /\ procs' = [k \in DOMAIN procs \ {p} |-> procs[k]]

\* the request p is suspended with local state loc
Suspend(p, loc) == procs' = (p :> loc) @@ procs

NewRequest(p) ==
    /\ p = nreq + 1
    /\ nreq < MaxReqs
    /\ Cardinality(DOMAIN procs) < MaxInFlight
    /\ nreq' = p

At(p, op, pc) == p \in DOMAIN procs /\ procs[p].op = op /\ procs[p].pc = pc

\* the catch block of CONNECT_DB
ConnectDbCatch(error) ==
    IF Includes(error.message, "decrypt") \/ Includes(error.message, "key")
    THEN formatErrorResponse(handleEncryptionError(error))
    ELSE formatErrorResponse(handleDatabaseError(error))

\* a CONNECT_DB that looks at the registry before it decrypts the record
ConnectDbRegistryFirst(p, id, encryptionKey) ==
    /\ NewRequest(p)
    /\ LET existingClient == getActiveClient(id)
           d == getDecryptedConnection(id, encryptionKey)
       IN IF existingClient # JsNull THEN
              /\ Complete(p, "CONNECT_DB", id,
                    formatSuccessResponse([tables |-> existingClient.tables,
                                           message |-> "(undefined)"]))
              /\ UNCHANGED clients
          ELSE IF ~d.ok THEN
              /\ Complete(p, "CONNECT_DB", id, ConnectDbCatch(d))
              /\ UNCHANGED clients
          ELSE LET c == createDatabaseClient(d.value, "CONNECT_DB")
               IN IF ~c.ok THEN
                      /\ Complete(p, "CONNECT_DB", id, ConnectDbCatch(c))
                      /\ UNCHANGED clients
                  ELSE
                      /\ clients' = Append(clients, c.value)
                      /\ Suspend(p, [op |-> "CONNECT_DB", pc |-> "connect", id |-> id,
                                     type |-> d.value.type, client |-> Len(clients) + 1])
                      /\ UNCHANGED resp
    /\ UNCHANGED <<store, ACTIVE_CLIENTS, history, ret, mongo, sqlite>>

\* CONNECT_DB up to the first await of driver I/O: decrypt, registry lookup,
\* and in getSchemaVisualization the client's construction and connect() call
ConnectDb(p, id, encryptionKey) ==
    /\ NewRequest(p)
    /\ LET d == getDecryptedConnection(id, encryptionKey)
           existingClient == getActiveClient(id)
       IN IF ~d.ok THEN
              /\ Complete(p, "CONNECT_DB", id, ConnectDbCatch(d))
              /\ UNCHANGED clients
          ELSE IF existingClient # JsNull THEN
              /\ Complete(p, "CONNECT_DB", id,
                    formatSuccessResponse([tables |-> existingClient.tables,
                                           message |-> "(undefined)"]))
              /\ UNCHANGED clients
          ELSE LET c == createDatabaseClient(d.value, "CONNECT_DB")
               IN IF ~c.ok THEN
                      /\ Complete(p, "CONNECT_DB", id, ConnectDbCatch(c))
                      /\ UNCHANGED clients
                  ELSE
                      /\ clients' = Append(clients, c.value)
                      /\ Suspend(p, [op |-> "CONNECT_DB", pc |-> "connect", id |-> id,
                                     type |-> d.value.type, client |-> Len(clients) + 1])
                      /\ UNCHANGED resp
    /\ UNCHANGED <<store, ACTIVE_CLIENTS, history, ret, mongo, sqlite>>

\* getSchemaVisualization after await client.connect()
ConnectDbConnected(p) ==
    /\ At(p, "CONNECT_DB", "connect")
    /\ \/ /\ clients' = [clients EXCEPT ![procs[p].client].state = "connected"]
          /\ procs' = [procs EXCEPT ![p].pc = "introspect"]
          /\ UNCHANGED resp
       \/ \E f \in ConnectFailures(clients[procs[p].client].type) :
          /\ clients' = [clients EXCEPT ![procs[p].client].state = f.state,
                                        ![procs[p].client].signal = f.signal]
          /\ Complete(p, "CONNECT_DB", procs[p].id, ConnectDbCatch(f.error))
    /\ UNCHANGED <<store, ACTIVE_CLIENTS, nreq, history, ret, mongo, sqlite>>

\* a getSchemaVisualization that stores the entry before it knows whether
\* introspection succeeded
ConnectDbIntrospectedEarlyInstall(p) ==
    /\ At(p, "CONNECT_DB", "introspect")
    /\ ACTIVE_CLIENTS' = MapSet(procs[p].id,
            [type |-> procs[p].type, client |-> procs[p].client, tables |-> "t1"])
    /\ clients' = [clients EXCEPT ![procs[p].client].installed = TRUE]
    /\ \/ Complete(p, "CONNECT_DB", procs[p].id,
                formatSuccessResponse([tables |-> "t1",
                                       message |-> "Connected successfully"]))
       \/ Complete(p, "CONNECT_DB", procs[p].id, ConnectDbCatch(IntrospectError))
    /\ UNCHANGED <<store, nreq, history, ret, mongo, sqlite>>

\* getSchemaVisualization after await client.getSchemaVisualization():
\* ACTIVE_CLIENTS.set, then the handler's success envelope
ConnectDbIntrospected(p) ==
    /\ At(p, "CONNECT_DB", "introspect")
    /\ \/ \E tables \in Schemas :
            /\ ACTIVE_CLIENTS' = MapSet(procs[p].id,
                    [type |-> procs[p].type, client |-> procs[p].client,
                     tables |-> tables])
            /\ clients' = [clients EXCEPT ![procs[p].client].installed = TRUE]
            /\ Complete(p, "CONNECT_DB", procs[p].id,
                    formatSuccessResponse([tables |-> tables,
                                           message |-> "Connected successfully"]))
       \/ /\ Complete(p, "CONNECT_DB", procs[p].id, ConnectDbCatch(IntrospectError))
          /\ UNCHANGED <<ACTIVE_CLIENTS, clients>>
    /\ UNCHANGED <<store, nreq, history, ret, mongo, sqlite>>

\* RUN_QUERY up to await clientInstance.client.executeQuery(query)
RunQuery(p, id, query) ==
    /\ NewRequest(p)
    /\ LET clientInstance == getActiveClient(id)
       IN IF clientInstance = JsNull THEN
              /\ Complete(p, "RUN_QUERY", id,
                    formatErrorResponse(
                        createError("CONNECTION_ERROR", "NO_ACTIVE_CONNECTION", TRUE)))
              /\ UNCHANGED clients
          ELSE
              /\ clients' = [clients EXCEPT ![clientInstance.client].queries = @ + 1]
              /\ Suspend(p, [op |-> "RUN_QUERY", pc |-> "query", id |-> id,
                             client |-> clientInstance.client])
              /\ UNCHANGED resp
    /\ UNCHANGED <<store, ACTIVE_CLIENTS, history, ret, mongo, sqlite>>

\* RUN_QUERY after executeQuery: the history entry, then the envelope
RunQueryExecuted(p) ==
    /\ At(p, "RUN_QUERY", "query")
    /\ \/ /\ history' = Append(history, [connectionId |-> procs[p].id, success |-> TRUE])
          /\ Complete(p, "RUN_QUERY", procs[p].id,
                formatSuccessResponse([result |-> "rows"]))
       \/ /\ history' = Append(history, [connectionId |-> procs[p].id, success |-> FALSE])
          /\ Complete(p, "RUN_QUERY", procs[p].id,
                formatErrorResponse(handleDatabaseError(QueryError)))
    /\ UNCHANGED <<store, ACTIVE_CLIENTS, clients, nreq, ret, mongo, sqlite>>

\* removeActiveClient: does it call instance.client.disconnect()?
CallsDisconnect(instance) == instance.type = "postgresql"

\* a removeActiveClient whose ACTIVE_CLIENTS.delete sits inside the try block
RegistryKeptOnThrow(id, outcome) ==
    IF outcome = "threw"
    THEN ACTIVE_CLIENTS
    ELSE [k \in DOMAIN ACTIVE_CLIENTS \ {id} |-> ACTIVE_CLIENTS[k]]

\* removeActiveClient: the registry once the disconnect attempt is over,
\* whatever its outcome ("ok", "threw", or "none" when it was not called)
RegistryAfterRemove(id, outcome) == MapDelete(id)

\* the client objects once the entry of id has been deleted from the registry
MarkRemoved(cs, id) ==
    IF id \in DOMAIN ACTIVE_CLIENTS
    THEN [cs EXCEPT ![ACTIVE_CLIENTS[id].client].removed = TRUE]
    ELSE cs

\* removeActiveClient(id) from its call to its first await, if any:
\* "suspended" when it awaits disconnect(), "done" otherwise
RemoveBegin(id) ==
    LET instance == getActiveClient(id)
    IN IF instance = JsNull THEN
           [at |-> "done", registry |-> ACTIVE_CLIENTS, clients |-> clients]
       ELSE IF CallsDisconnect(instance) THEN
           [at |-> "suspended", registry |-> ACTIVE_CLIENTS, instance |-> instance,
            clients |-> [clients EXCEPT ![instance.client].disc = "pending"]]
       ELSE
           [at |-> "done", registry |-> RegistryAfterRemove(id, "none"),
            clients |-> MarkRemoved(clients, id)]

\* removeActiveClient(id) after await instance.client.disconnect()
RemoveEnd(id, instance, outcome) ==
    [registry |-> RegistryAfterRemove(id, outcome),
     clients |-> MarkRemoved(
        [clients EXCEPT ![instance.client].disc = outcome,
                        ![instance.client].state =
                            IF outcome = "ok" THEN "closed" ELSE @],
        id)]

\* DISCONNECT_DB up to the await inside removeActiveClient, if any
DisconnectDb(p, id) ==
    /\ NewRequest(p)
    /\ LET r == RemoveBegin(id)
       IN /\ clients' = r.clients
          /\ ACTIVE_CLIENTS' = r.registry
          /\ IF r.at = "done" THEN
                 Complete(p, "DISCONNECT_DB", id, formatSuccessResponse([message |->
                    "Database disconnected successfully"]))
             ELSE
                 /\ Suspend(p, [op |-> "DISCONNECT_DB", pc |-> "disconnect", id |-> id,
                                instance |-> r.instance])
                 /\ UNCHANGED resp
    /\ UNCHANGED <<store, history, ret, mongo, sqlite>>

\* DISCONNECT_DB after the disconnect() awaited by removeActiveClient
DisconnectDbDisconnected(p) ==
    /\ At(p, "DISCONNECT_DB", "disconnect")
    /\ \E outcome \in {"ok", "threw"} :
        LET r == RemoveEnd(procs[p].id, procs[p].instance, outcome)
        IN /\ clients' = r.clients
           /\ ACTIVE_CLIENTS' = r.registry
           /\ Complete(p, "DISCONNECT_DB", procs[p].id, formatSuccessResponse([message |->
                "Database disconnected successfully"]))
    /\ UNCHANGED <<store, nreq, history, ret, mongo, sqlite>>

\* DELETE_CONNECTION up to the await inside removeActiveClient, if any
DeleteConnection(p, id) ==
    /\ NewRequest(p)
    /\ LET r == RemoveBegin(id)
       IN /\ clients' = r.clients
          /\ ACTIVE_CLIENTS' = r.registry
          /\ IF r.at = "done" THEN
                 /\ store' = deleteConnection(id)
                 /\ Complete(p, "DELETE_CONNECTION", id, formatSuccessResponse([message |->
                        "Connection deleted successfully"]))
             ELSE
                 /\ Suspend(p, [op |-> "DELETE_CONNECTION", pc |-> "disconnect",
                                id |-> id, instance |-> r.instance])
                 /\ UNCHANGED <<resp, store>>
    /\ UNCHANGED <<history, ret, mongo, sqlite>>

\* DELETE_CONNECTION after the disconnect() awaited by removeActiveClient
DeleteConnectionDisconnected(p) ==
    /\ At(p, "DELETE_CONNECTION", "disconnect")
    /\ \E outcome \in {"ok", "threw"} :
        LET r == RemoveEnd(procs[p].id, procs[p].instance, outcome)
        IN /\ clients' = r.clients
           /\ ACTIVE_CLIENTS' = r.registry
           /\ store' = deleteConnection(procs[p].id)
           /\ Complete(p, "DELETE_CONNECTION", procs[p].id, formatSuccessResponse([message |->
                "Connection deleted successfully"]))
    /\ UNCHANGED <<nreq, history, ret, mongo, sqlite>>

\* TEST_CONNECTION up to await db.connect()
TestConnection(p, config) ==
    /\ NewRequest(p)
    /\ LET c == createDatabaseClient(config, "TEST_CONNECTION")
       IN IF ~c.ok THEN
              /\ Complete(p, "TEST_CONNECTION", config.id,
                    formatErrorResponse(handleDatabaseError(c)))
              /\ UNCHANGED clients
          ELSE
              /\ clients' = Append(clients, c.value)
              /\ Suspend(p, [op |-> "TEST_CONNECTION", pc |-> "connect", id |-> config.id,
                             client |-> Len(clients) + 1])
              /\ UNCHANGED resp
    /\ UNCHANGED <<store, ACTIVE_CLIENTS, history, ret, mongo, sqlite>>

\* TEST_CONNECTION after await db.connect(): the call of db.disconnect()
TestConnectionConnected(p) ==
    /\ At(p, "TEST_CONNECTION", "connect")
    /\ \/ /\ clients' = [clients EXCEPT ![procs[p].client].state = "connected",
                                        ![procs[p].client].disc = "pending"]
          /\ procs' = [procs EXCEPT ![p].pc = "disconnect"]
          /\ UNCHANGED resp
       \/ \E f \in ConnectFailures(clients[procs[p].client].type) :
          /\ clients' = [clients EXCEPT ![procs[p].client].state = f.state,
                                        ![procs[p].client].signal = f.signal]
          /\ Complete(p, "TEST_CONNECTION", procs[p].id,
                formatErrorResponse(handleDatabaseError(f.error)))
    /\ UNCHANGED <<store, ACTIVE_CLIENTS, nreq, history, ret, mongo, sqlite>>

\* TEST_CONNECTION after await db.disconnect(), keeping the client as the
\* live one of its id
TestConnectionRegisters(p) ==
    /\ At(p, "TEST_CONNECTION", "disconnect")
    /\ clients' = [clients EXCEPT ![procs[p].client].disc = "ok",
                                  ![procs[p].client].state = "closed"]
    /\ ACTIVE_CLIENTS' = MapSet(procs[p].id, procs[p].client)
    /\ Complete(p, "TEST_CONNECTION", procs[p].id,
          formatSuccessResponse([message |-> "Connection test successful"]))
    /\ UNCHANGED <<store, nreq, history, ret, mongo, sqlite>>

\* TEST_CONNECTION after await db.disconnect()
TestConnectionDisconnected(p) ==
    /\ At(p, "TEST_CONNECTION", "disconnect")
    /\ \/ /\ clients' = [clients EXCEPT ![procs[p].client].disc = "ok",
                                        ![procs[p].client].state = "closed"]
          /\ Complete(p, "TEST_CONNECTION", procs[p].id,
                formatSuccessResponse([message |-> "Connection test successful"]))
       \/ /\ clients' = [clients EXCEPT ![procs[p].client].disc = "threw"]
          /\ Complete(p, "TEST_CONNECTION", procs[p].id,
                formatErrorResponse(handleDatabaseError(DisconnectError)))
    /\ UNCHANGED <<store, ACTIVE_CLIENTS, nreq, history, ret, mongo, sqlite>>

\* the catch block of SAVE_CONNECTION
SaveConnectionCatch(error) ==
    IF Includes(error.message, "encrypt") \/ Includes(error.message, "key")
    THEN formatErrorResponse(handleEncryptionError(error))
    ELSE formatErrorResponse(handleDatabaseError(error))

\* SAVE_CONNECTION up to await db.connect(); appended records whether this
\* invocation has called store.set
SaveConnection(p, config, encryptionKey) ==
    /\ NewRequest(p)
    /\ Len(store) < MaxStore
    /\ LET c == createDatabaseClient(config, "SAVE_CONNECTION")
       IN IF ~c.ok THEN
              /\ Complete(p, "SAVE_CONNECTION", config.id, SaveConnectionCatch(c))
              /\ UNCHANGED clients
          ELSE
              /\ clients' = Append(clients, c.value)
              /\ Suspend(p, [op |-> "SAVE_CONNECTION", pc |-> "connect", id |-> config.id,
                             config |-> config, key |-> encryptionKey,
                             client |-> Len(clients) + 1, tables |-> "(unset)",
                             appended |-> FALSE])
              /\ UNCHANGED resp
    /\ UNCHANGED <<store, ACTIVE_CLIENTS, history, ret, mongo, sqlite>>

\* SAVE_CONNECTION after await db.connect()
SaveConnectionConnected(p) ==
    /\ At(p, "SAVE_CONNECTION", "connect")
    /\ \/ /\ clients' = [clients EXCEPT ![procs[p].client].state = "connected"]
          /\ procs' = [procs EXCEPT ![p].pc = "introspect"]
          /\ UNCHANGED resp
       \/ \E f \in ConnectFailures(clients[procs[p].client].type) :
          /\ clients' = [clients EXCEPT ![procs[p].client].state = f.state,
                                        ![procs[p].client].signal = f.signal]
          /\ Complete(p, "SAVE_CONNECTION", procs[p].id, SaveConnectionCatch(f.error))
    /\ UNCHANGED <<store, ACTIVE_CLIENTS, nreq, history, ret, mongo, sqlite>>

\* SAVE_CONNECTION after await db.getSchemaVisualization():
\* saveEncryptedConnection, then the call of db.disconnect()
SaveConnectionIntrospected(p) ==
    /\ At(p, "SAVE_CONNECTION", "introspect")
    /\ \/ \E tables \in Schemas, salt \in Salts, iv \in IVs :
            LET s == saveEncryptedConnection(procs[p].config, procs[p].key, salt, iv)
            IN IF ~s.ok THEN
                   /\ Complete(p, "SAVE_CONNECTION", procs[p].id, SaveConnectionCatch(s))
                   /\ UNCHANGED <<store, clients>>
               ELSE
                   /\ store' = s.value
                   /\ clients' = [clients EXCEPT ![procs[p].client].disc = "pending"]
                   /\ procs' = [procs EXCEPT ![p].pc = "disconnect",
                                             ![p].tables = tables,
                                             ![p].appended = TRUE]
                   /\ UNCHANGED resp
       \/ /\ Complete(p, "SAVE_CONNECTION", procs[p].id, SaveConnectionCatch(IntrospectError))
          /\ UNCHANGED <<store, clients>>
    /\ UNCHANGED <<ACTIVE_CLIENTS, nreq, history, ret, mongo, sqlite>>

\* SAVE_CONNECTION after await db.disconnect()
SaveConnectionDisconnected(p) ==
    /\ At(p, "SAVE_CONNECTION", "disconnect")
    /\ \/ /\ clients' = [clients EXCEPT ![procs[p].client].disc = "ok",
                                        ![procs[p].client].state = "closed"]
          /\ Complete(p, "SAVE_CONNECTION", procs[p].id,
                formatSuccessResponse([tables |-> procs[p].tables,
                                       message |-> "Connection saved successfully"]))
       \/ /\ clients' = [clients EXCEPT ![procs[p].client].disc = "threw"]
          /\ Complete(p, "SAVE_CONNECTION", procs[p].id, SaveConnectionCatch(DisconnectError))
    /\ UNCHANGED <<store, ACTIVE_CLIENTS, nreq, history, ret, mongo, sqlite>>

\* passphrase under which the persisted connections were saved
SaveKey == <<112>>

Requests == 1..MaxReqs

Next ==
    \/ \E p \in Requests, id \in Ids, key \in StoreKeys : ConnectDb(p, id, key)
    \/ \E p \in Requests : ConnectDbConnected(p)
    \/ \E p \in Requests : ConnectDbIntrospected(p)
    \/ \E p \in Requests, id \in Ids, query \in Queries : RunQuery(p, id, query)
    \/ \E p \in Requests : RunQueryExecuted(p)
    \/ \E p \in Requests, id \in Ids : DisconnectDb(p, id)
    \/ \E p \in Requests : DisconnectDbDisconnected(p)
    \/ \E p \in Requests, id \in Ids : DeleteConnection(p, id)
    \/ \E p \in Requests : DeleteConnectionDisconnected(p)

\* the persisted list the application starts with: empty, or one record
\* saved under SaveKey in an earlier session
InitialStores ==
    {<<>>} \cup
    {<<StoredConnection(ConnectionConfig(<<"a">>, <<"n1">>, type, secret),
                        SaveKey, <<0>>, <<0>>)>> :
        type \in DbType, secret \in Secrets}

InitHandlers ==
    /\ store \in InitialStores
    /\ ret = NoRet
    /\ ACTIVE_CLIENTS = EmptyMap
    /\ clients = <<>>
    /\ procs = EmptyMap
    /\ resp = [n |-> 0]
    /\ nreq = 0
    /\ history = <<>>
    /\ mongo = MongoIdle
    /\ sqlite = SqliteIdle

Spec == InitHandlers /\ [][Next]_vars

\* the configs given to TEST_CONNECTION and SAVE_CONNECTION: a PostgreSQL one
\* for id b, and one of a type that is not a DbType
NewConfigs ==
    {ConnectionConfig(<<"b">>, <<"n1">>, type, secret) :
        type \in {"postgresql", "oracle"}, secret \in Secrets}

\* the requests of the test and save flows
MaxSaveReqs == 3
SaveRequests == 1..MaxSaveReqs

\* the test and save flows, interleaved at their driver awaits
NextSave ==
    \/ \E p \in SaveRequests, config \in NewConfigs : TestConnection(p, config)
    \/ \E p \in SaveRequests : TestConnectionConnected(p)
    \/ \E p \in SaveRequests : TestConnectionDisconnected(p)
    \/ \E p \in SaveRequests, config \in NewConfigs : SaveConnection(p, config, SaveKey)
    \/ \E p \in SaveRequests : SaveConnectionConnected(p)
    \/ \E p \in SaveRequests : SaveConnectionIntrospected(p)
    \/ \E p \in SaveRequests : SaveConnectionDisconnected(p)

SpecSave == InitHandlers /\ [][NextSave]_vars

\* the test, save and connect flows over one config per engine, each of id a
MaxEngineReqs == 2
EngineRequests == 1..MaxEngineReqs

EngineConfigs ==
    {ConnectionConfig(<<"a">>, <<"n1">>, type, secret) :
        type \in DbType, secret \in Secrets}

NextEngines ==
    \/ \E p \in EngineRequests, config \in EngineConfigs : TestConnection(p, config)
    \/ \E p \in EngineRequests : TestConnectionConnected(p)
    \/ \E p \in EngineRequests : TestConnectionDisconnected(p)
    \/ \E p \in EngineRequests, config \in EngineConfigs :
            SaveConnection(p, config, SaveKey)
    \/ \E p \in EngineRequests : SaveConnectionConnected(p)
    \/ \E p \in EngineRequests : SaveConnectionIntrospected(p)
    \/ \E p \in EngineRequests : SaveConnectionDisconnected(p)
    \/ \E p \in EngineRequests, id \in Ids : ConnectDb(p, id, SaveKey)
    \/ \E p \in EngineRequests : ConnectDbConnected(p)
    \/ \E p \in EngineRequests : ConnectDbIntrospected(p)

SpecEngines == InitHandlers /\ [][NextEngines]_vars

(***************************************************************************)
(* channels.ts: clearAllClients, next to the connects that fill the        *)
(* registry.  The registry here keeps no insertion order, so the           *)
(* snapshot Array.from(ACTIVE_CLIENTS.keys()) is taken in any order.       *)
(***************************************************************************)
MaxClearReqs == 3
ClearRequests == 1..MaxClearReqs

\* the sequences that list each element of the set S once
Orderings(S) ==
    {s \in UNION {[1..n -> S] : n \in {Cardinality(S)}} :
        \A i, j \in 1..Cardinality(S) : i # j => s[i] # s[j]}

\* the for loop of clearAllClients from the id at the head of ids up to the
\* first removeActiveClient that awaits disconnect(), or to its end:
\* reg and cs are the registry and the clients so far, done the ids whose
\* removeActiveClient call has returned
RECURSIVE ClearLoop(_, _, _, _)
ClearLoop(ids, reg, cs, done) ==
    IF ids = <<>> THEN [at |-> "done", registry |-> reg, clients |-> cs, done |-> done]
    ELSE LET id == Head(ids)
         IN IF id \notin DOMAIN reg THEN
                ClearLoop(Tail(ids), reg, cs, Append(done, id))
            ELSE IF CallsDisconnect(reg[id]) THEN
                [at |-> "suspended", id |-> id, rest |-> Tail(ids), instance |-> reg[id],
                 registry |-> reg, done |-> done,
                 clients |-> [cs EXCEPT ![reg[id].client].disc = "pending"]]
            ELSE
                ClearLoop(Tail(ids),
                          [k \in DOMAIN reg \ {id} |-> reg[k]],
                          [cs EXCEPT ![reg[id].client].removed = TRUE],
                          Append(done, id))

\* what a clearAllClients call leaves in resp when it returns
Cleared(start, done) == [success |-> TRUE, start |-> start, done |-> done]

\* clearAllClients up to the first disconnect() it awaits, if any
ClearAllClients(p) ==
    /\ NewRequest(p)
    /\ \E ids \in Orderings(DOMAIN ACTIVE_CLIENTS) :
        LET r == ClearLoop(ids, ACTIVE_CLIENTS, clients, <<>>)
        IN /\ clients' = r.clients
           /\ ACTIVE_CLIENTS' = r.registry
           /\ IF r.at = "done" THEN
                  Complete(p, "clearAllClients", <<>>, Cleared(ids, r.done))
              ELSE
                  /\ Suspend(p, [op |-> "clearAllClients", pc |-> "disconnect",
                                 id |-> r.id, instance |-> r.instance, rest |-> r.rest,
                                 start |-> ids, done |-> r.done])
                  /\ UNCHANGED resp
    /\ UNCHANGED <<store, history, ret, mongo, sqlite>>

\* clearAllClients after a disconnect() awaited by removeActiveClient: the
\* entry is deleted whatever the outcome, and the loop goes on
ClearAllClientsDisconnected(p) ==
    /\ At(p, "clearAllClients", "disconnect")
    /\ \E outcome \in {"ok", "threw"} :
        LET e == RemoveEnd(procs[p].id, procs[p].instance, outcome)
            r == ClearLoop(procs[p].rest, e.registry, e.clients,
                           Append(procs[p].done, procs[p].id))
        IN /\ clients' = r.clients
           /\ ACTIVE_CLIENTS' = r.registry
           /\ IF r.at = "done" THEN
                  Complete(p, "clearAllClients", <<>>, Cleared(procs[p].start, r.done))
              ELSE
                  /\ procs' = [procs EXCEPT ![p].id = r.id, ![p].instance = r.instance,
                                            ![p].rest = r.rest, ![p].done = r.done]
                  /\ UNCHANGED resp
    /\ UNCHANGED <<store, nreq, history, ret, mongo, sqlite>>

\* persisted lists with a record for each id
ClearStores ==
    {<<StoredConnection(ConnectionConfig(<<"a">>, <<"n1">>, ta, <<115, 34, 55357>>),
                        SaveKey, <<0>>, <<0>>),
       StoredConnection(ConnectionConfig(<<"b">>, <<"n1">>, tb, <<115, 34, 55357>>),
                        SaveKey, <<0>>, <<0>>)>> :
        ta \in {"postgresql"}, tb \in {"postgresql", "mysql"}}

InitClear ==
    /\ store \in ClearStores
    /\ ret = NoRet
    /\ ACTIVE_CLIENTS = EmptyMap
    /\ clients = <<>>
    /\ procs = EmptyMap
    /\ resp = [n |-> 0]
    /\ nreq = 0
    /\ history = <<>>
    /\ mongo = MongoIdle
    /\ sqlite = SqliteIdle

NextClear ==
    \/ \E p \in ClearRequests, id \in Ids : ConnectDb(p, id, SaveKey)
    \/ \E p \in ClearRequests : ConnectDbConnected(p)
    \/ \E p \in ClearRequests : ConnectDbIntrospected(p)
    \/ \E p \in ClearRequests : ClearAllClients(p)
    \/ \E p \in ClearRequests : ClearAllClientsDisconnected(p)

SpecClear == InitClear /\ [][NextClear]_vars

(***************************************************************************)
(* db/mongodb.ts: Mongodb.executeQuery.  A query is a sequence of           *)
(* characters; the two regular expressions are matched character by        *)
(* character.                                                              *)
(***************************************************************************)
MaxQueries == 2

\* [a-zA-Z0-9_]
WordChars ==
    {"a", "b", "c", "d", "e", "f", "g", "h", "i", "j", "k", "l", "m",
     "n", "o", "p", "q", "r", "s", "t", "u", "v", "w", "x", "y", "z",
     "A", "B", "C", "D", "E", "F", "G", "H", "I", "J", "K", "L", "M",
     "N", "O", "P", "Q", "R", "S", "T", "U", "V", "W", "X", "Y", "Z",
     "0", "1", "2", "3", "4", "5", "6", "7", "8", "9", "_"}

WhiteSpace == {" ", "\t", "\n"}

RECURSIVE TrimStart(_)
TrimStart(s) == IF s # <<>> /\ s[1] \in WhiteSpace THEN TrimStart(Tail(s)) ELSE s

RECURSIVE TrimEnd(_)
TrimEnd(s) ==
    IF s # <<>> /\ s[Len(s)] \in WhiteSpace
    THEN TrimEnd(SubSeq(s, 1, Len(s) - 1))
    ELSE s

\* String.prototype.trim
Trim(s) == TrimEnd(TrimStart(s))

\* the first position from i on that does not hold a word character: where a
\* greedy [a-zA-Z0-9_]+ started at i ends
RECURSIVE WordEnd(_, _)
WordEnd(s, i) == IF i <= Len(s) /\ s[i] \in WordChars THEN WordEnd(s, i + 1) ELSE i

NoMatch == [ok |-> FALSE]

\* q.match(/^db\.([a-zA-Z0-9_]+)\.find\(([\s\S]*?)\)$/)
FindMatch(q) ==
    IF Len(q) < 3 \/ SubSeq(q, 1, 3) # <<"d", "b", ".">> THEN NoMatch
    ELSE LET i == WordEnd(q, 4)
         IN IF i = 4 \/ Len(q) < i + 6 THEN NoMatch
            ELSE IF SubSeq(q, i, i + 5) # <<".", "f", "i", "n", "d", "(">> THEN NoMatch
            ELSE IF q[Len(q)] # ")" THEN NoMatch
            ELSE [ok |-> TRUE, collection |-> SubSeq(q, 4, i - 1),
                  params |-> SubSeq(q, i + 6, Len(q) - 1)]

\* q.match(/^db\.([a-zA-Z0-9_]+)\.([a-zA-Z0-9_]+)\(([\s\S]*)\)$/)
CollectionMatch(q) ==
    IF Len(q) < 3 \/ SubSeq(q, 1, 3) # <<"d", "b", ".">> THEN NoMatch
    ELSE LET i == WordEnd(q, 4)
         IN IF i = 4 \/ i > Len(q) \/ q[i] # "." THEN NoMatch
            ELSE LET j == WordEnd(q, i + 1)
                 IN IF j = i + 1 \/ j >= Len(q) \/ q[j] # "(" THEN NoMatch
                    ELSE IF q[Len(q)] # ")" THEN NoMatch
                    ELSE [ok |-> TRUE, collection |-> SubSeq(q, 4, i - 1),
                          method |-> SubSeq(q, i + 1, j - 1),
                          params |-> SubSeq(q, j + 1, Len(q) - 1)]

Find == <<"f", "i", "n", "d">>
Aggregate == <<"a", "g", "g", "r", "e", "g", "a", "t", "e">>

\* an else-if that forgets to compare the method with 'aggregate'
AcceptsAnyMethod(collectionMatch) == collectionMatch.ok

\* collectionMatch && collectionMatch[2] === 'aggregate'
AcceptsGeneric(collectionMatch) ==
    collectionMatch.ok /\ collectionMatch.method = Aggregate

JsEmptyObject == [kind |-> "object"]
JsArray(items) == [kind |-> "array", items |-> items]

\* new Function(`return ${paramsStr}`)() for argument text made of empty
\* object literals, null and array brackets; any other text is a syntax error
RECURSIVE EvalParams(_)
EvalParams(paramsStr) ==
    LET s == Trim(paramsStr)
    IN IF s = <<"{", "}">> THEN Returned(JsEmptyObject)
       ELSE IF s = <<"n", "u", "l", "l">> THEN Returned(JsNull)
       ELSE IF Len(s) >= 2 /\ s[1] = "[" /\ s[Len(s)] = "]"
       THEN LET inner == SubSeq(s, 2, Len(s) - 1)
            IN IF Trim(inner) = <<>> THEN Returned(JsArray(<<>>))
               ELSE LET e == EvalParams(inner)
                    IN IF e.ok THEN Returned(JsArray(<<e.value>>)) ELSE e
       ELSE Thrown("Invalid parameters syntax: Unexpected token")

InvalidQueryFormat ==
    Thrown("Invalid MongoDB query format. Supported operations: find, aggregate")

MongoDriverError == ThrownWith("Executor error during find command", "2", "MongoServerError")

\* ToBoolean of the values EvalParams yields
Truthy(v) == v.kind \notin {"undefined", "null"}

\* a find that passes params on without a default
FindFilterRaw(params) == params

\* params || {}
FindFilter(params) == IF Truthy(params) THEN params ELSE JsEmptyObject

\* a pipeline that is wrapped whatever it is
PipelineAlwaysWrapped(params) == JsArray(<<params>>)

\* Array.isArray(params) ? params : [params]
Pipeline(params) == IF params.kind = "array" THEN params ELSE JsArray(<<params>>)

\* executeQuery(query) up to the await of toArray(), or to its throw or return
MongoExecuteQuery(query) ==
    /\ mongo.pc # "awaiting"
    /\ mongo.n < MaxQueries
    /\ LET q == Trim(query)
           findMatch == FindMatch(q)
           collectionMatch == CollectionMatch(q)
           started == [mongo EXCEPT !.n = @ + 1, !.query = query,
                                    !.call = [op |-> "none"],
                                    !.driver = [op |-> "none"]]
       IN IF ~findMatch.ok /\ ~AcceptsGeneric(collectionMatch) THEN
              mongo' = [started EXCEPT !.pc = "done", !.result = InvalidQueryFormat]
          ELSE
              LET collectionName == IF findMatch.ok THEN findMatch.collection
                                    ELSE collectionMatch.collection
                  operation == IF findMatch.ok THEN Find ELSE collectionMatch.method
                  paramsStr == IF findMatch.ok THEN findMatch.params
                               ELSE collectionMatch.params
                  evaluates == paramsStr # <<>> /\ Trim(paramsStr) # <<>>
                  e == IF evaluates THEN EvalParams(paramsStr) ELSE Returned(Undefined)
                  opened == [started EXCEPT !.handles = @ + 1,
                                            !.evals = IF evaluates THEN @ + 1 ELSE @]
              IN IF ~e.ok THEN
                     mongo' = [opened EXCEPT !.pc = "done", !.result = e]
                 ELSE IF operation = Find THEN
                     mongo' = [opened EXCEPT
                        !.pc = "awaiting", !.calls = @ + 1,
                        !.call = [op |-> "find", collection |-> collectionName,
                                  arg |-> FindFilter(e.value)]]
                 ELSE IF operation = Aggregate THEN
                     mongo' = [opened EXCEPT
                        !.pc = "awaiting", !.calls = @ + 1,
                        !.call = [op |-> "aggregate", collection |-> collectionName,
                                  arg |-> Pipeline(e.value)]]
                 ELSE
                     mongo' = [opened EXCEPT !.pc = "done", !.result = Returned(<<>>)]
    /\ UNCHANGED <<store, ret, handlerVars, sqlite>>

\* the document lists toArray() resolves with
MongoDocs == {<<>>, <<"doc1">>, <<"doc1", "doc2">>}

\* executeQuery after await collection.find(filter).toArray() or
\* collection.aggregate(pipeline).toArray()
MongoToArray ==
    /\ mongo.pc = "awaiting"
    /\ \/ \E docs \in MongoDocs :
            mongo' = [mongo EXCEPT !.pc = "done", !.driver = Returned(docs),
                                   !.result = Returned(docs)]
       \/ mongo' = [mongo EXCEPT !.pc = "done", !.driver = MongoDriverError,
                                 !.result = MongoDriverError]
    /\ UNCHANGED <<store, ret, handlerVars, sqlite>>

\* the queries handed to executeQuery
DeleteMany == <<"d", "e", "l", "e", "t", "e", "M", "a", "n", "y">>
FindOne == <<"f", "i", "n", "d", "O", "n", "e">>
MongoLeads == {<<>>, <<" ">>}
MongoHeads == {<<"d", "b", ".">>, <<"D", "B", ".">>}
MongoCollections == {<<"u">>, <<"u", "_", "1">>, <<>>}
MongoMethods == {Find, Aggregate, DeleteMany, FindOne, <<>>}
MongoArgs ==
    {<<>>, <<" ">>, <<"{", "}">>, <<"[", "{", "}", "]">>, <<"[", "]">>,
     <<"n", "u", "l", "l">>, <<" ", "{", "}", " ">>, <<"{">>, <<")", "(">>}
MongoTails == {<<>>, <<";">>}

\* the text <collection>.<method>(<args>)
ShellCall(collection, method, args) ==
    collection \o <<".">> \o method \o <<"(">> \o args \o <<")">>

MongoQueries ==
    {lead \o head \o ShellCall(collection, method, args) \o tail :
        lead \in MongoLeads, head \in MongoHeads, collection \in MongoCollections,
        method \in MongoMethods, args \in MongoArgs, tail \in MongoTails}

NextMongo ==
    \/ \E query \in MongoQueries : MongoExecuteQuery(query)
    \/ MongoToArray

SpecMongo == Init /\ [][NextMongo]_vars

(***************************************************************************)
(* db/sqlite.ts: SQLite.executeQuery.  A query is a sequence of characters. *)
(* better-sqlite3 is synchronous: a call runs to its end in one step.      *)
(***************************************************************************)
LowerCase ==
    <<"a", "b", "c", "d", "e", "f", "g", "h", "i", "j", "k", "l", "m",
      "n", "o", "p", "q", "r", "s", "t", "u", "v", "w", "x", "y", "z">>
UpperCase ==
    <<"A", "B", "C", "D", "E", "F", "G", "H", "I", "J", "K", "L", "M",
      "N", "O", "P", "Q", "R", "S", "T", "U", "V", "W", "X", "Y", "Z">>

\* String.prototype.toUpperCase on the characters of the model
ToUpperCase(s) ==
    [i \in 1..Len(s) |->
        IF \E k \in 1..Len(LowerCase) : LowerCase[k] = s[i]
        THEN UpperCase[CHOOSE k \in 1..Len(LowerCase) : LowerCase[k] = s[i]]
        ELSE s[i]]

\* String.prototype.startsWith
StartsWith(s, prefix) ==
    Len(s) >= Len(prefix) /\ SubSeq(s, 1, Len(prefix)) = prefix

KwSelect == <<"S", "E", "L", "E", "C", "T">>
KwWith == <<"W", "I", "T", "H">>
KwPragma == <<"P", "R", "A", "G", "M", "A">>

\* a classification that forgets to trim
IsReadUntrimmed(query) ==
    LET upperQuery == ToUpperCase(query)
    IN \/ StartsWith(upperQuery, KwSelect)
       \/ StartsWith(upperQuery, KwWith)
       \/ StartsWith(upperQuery, KwPragma)

\* the condition of the if in executeQuery
IsRead(query) ==
    LET trimmedQuery == ToUpperCase(Trim(query))
    IN \/ StartsWith(trimmedQuery, KwSelect)
       \/ StartsWith(trimmedQuery, KwWith)
       \/ StartsWith(trimmedQuery, KwPragma)

\* the row sets stmt.all() returns and the info objects stmt.run() returns
SqliteRows == {<<>>, <<"row1">>, <<"row1", "row2">>}
SqliteInfos == {[changes |-> c, lastInsertRowid |-> r] : c \in 0..1, r \in 0..1}
SqliteError == ThrownWith("near \"x\": syntax error", "SQLITE_ERROR", "SqliteError")

\* the one row executeQuery builds from the info object of stmt.run()
SummaryRow(info) ==
    [changes |-> info.changes, lastInsertRowid |-> info.lastInsertRowid,
     message |-> <<"Query executed successfully. ", info.changes, " row(s) affected.">>]

\* connect(): this.db is set, or the exception
SqliteConnect ==
    /\ ~sqlite.db
    /\ sqlite.n = 0
    /\ sqlite' = [sqlite EXCEPT !.db = TRUE]
    /\ UNCHANGED <<store, ret, handlerVars, mongo>>

\* executeQuery(query)
SqliteExecuteQuery(query) ==
    /\ sqlite.n < MaxQueries
    /\ LET started == [sqlite EXCEPT !.n = @ + 1, !.query = query, !.stmt = "none",
                                     !.driver = [op |-> "none"]]
       IN IF ~sqlite.db THEN
              sqlite' = [started EXCEPT
                            !.result = Thrown("SQLite connection not established")]
          ELSE IF IsRead(query) THEN
              \/ \E rows \in SqliteRows :
                    sqlite' = [started EXCEPT !.stmt = "all", !.driver = Returned(rows),
                                              !.result = Returned(rows)]
              \/ sqlite' = [started EXCEPT !.stmt = "all", !.driver = SqliteError,
                                           !.result = SqliteError]
          ELSE
              \/ \E info \in SqliteInfos :
                    sqlite' = [started EXCEPT !.stmt = "run", !.driver = Returned(info),
                                              !.result = Returned(<<SummaryRow(info)>>)]
              \/ sqlite' = [started EXCEPT !.stmt = "run", !.driver = SqliteError,
                                           !.result = SqliteError]
    /\ UNCHANGED <<store, ret, handlerVars, mongo>>

\* the queries handed to executeQuery
SqlLeads == {<<>>, <<" ">>, <<"\n", "\t">>, <<"(">>, <<"-", "-", "\n">>}
SqlKeywords ==
    {<<"s", "e", "l", "e", "c", "t">>, KwSelect, <<"S", "e", "L", "e", "c", "T">>,
     <<"w", "i", "t", "h">>, KwWith, <<"p", "r", "a", "g", "m", "a">>, KwPragma,
     <<"s", "e", "l", "e", "c">>, <<"w", "i", "t">>,
     <<"i", "n", "s", "e", "r", "t">>, <<"U", "P", "D", "A", "T", "E">>,
     <<"d", "e", "l", "e", "t", "e">>, <<"e", "x", "p", "l", "a", "i", "n">>, <<>>}
SqlRests == {<<>>, <<" ", "1">>, <<"e", "d", " ">>, <<" ", "s", "e", "l", "e", "c", "t">>}

SqlQueries ==
    {lead \o keyword \o rest :
        lead \in SqlLeads, keyword \in SqlKeywords, rest \in SqlRests}

NextSqlite ==
    \/ SqliteConnect
    \/ \E query \in SqlQueries : SqliteExecuteQuery(query)

SpecSqlite == Init /\ [][NextSqlite]_vars

(***************************************************************************)
(* ipc/handlers.ts: UPDATE_CONNECTION, next to connects that fill the      *)
(* registry.  A name is a sequence of text pieces; the pieces of           *)
(* WhiteSpace are what String.prototype.trim strips.                       *)
(***************************************************************************)
MaxUpdateReqs == 3
UpdateRequests == 1..MaxUpdateReqs

\* the names given to UPDATE_CONNECTION: empty, blank, plain, padded, and
\* one with an inner space
UpdateNames ==
    {<<>>, <<" ">>, <<"n2">>, <<" ", "n2", "\t">>, <<"n", " ", "2">>}

\* UPDATE_CONNECTION: it awaits nothing and runs in one step
UpdateConnection(p, id, name) ==
    /\ NewRequest(p)
    /\ IF name = <<>> \/ Len(Trim(name)) = 0
       THEN /\ Complete(p, "UPDATE_CONNECTION", id,
                  formatErrorResponse(handleValidationError))
            /\ UNCHANGED store
       ELSE /\ store' = updateEncryptedConnection(id, Trim(name))
            /\ Complete(p, "UPDATE_CONNECTION", id,
                  formatSuccessResponse([message |-> "Connection updated successfully"]))
    /\ UNCHANGED <<ACTIVE_CLIENTS, clients, history, ret, mongo, sqlite>>

\* the persisted lists an update meets: none, two records in either order,
\* and an id saved twice
UpdateStores ==
    LET rec(id, type) ==
            StoredConnection(ConnectionConfig(id, <<"n1">>, type, <<115, 34, 55357>>),
                             SaveKey, <<0>>, <<0>>)
    IN {<<>>,
        <<rec(<<"a">>, "postgresql"), rec(<<"b">>, "mysql")>>,
        <<rec(<<"b">>, "postgresql"), rec(<<"a">>, "sqlite3")>>,
        <<rec(<<"a">>, "postgresql"), rec(<<"a">>, "mongodb")>>}

InitUpdate ==
    /\ store \in UpdateStores
    /\ ret = NoRet
    /\ ACTIVE_CLIENTS = EmptyMap
    /\ clients = <<>>
    /\ procs = EmptyMap
    /\ resp = [n |-> 0]
    /\ nreq = 0
    /\ history = <<>>
    /\ mongo = MongoIdle
    /\ sqlite = SqliteIdle

NextUpdate ==
    \/ \E p \in UpdateRequests, id \in Ids, name \in UpdateNames :
            UpdateConnection(p, id, name)
    \/ \E p \in UpdateRequests, id \in Ids : ConnectDb(p, id, SaveKey)
    \/ \E p \in UpdateRequests : ConnectDbConnected(p)
    \/ \E p \in UpdateRequests : ConnectDbIntrospected(p)

SpecUpdate == InitUpdate /\ [][NextUpdate]_vars

(***************************************************************************)
(* Properties of the SQLite client (SpecSqlite).                           *)
(***************************************************************************)
\* c is the upper-case letter u or its lower-case form
CaseEq(c, u) ==
    c = u \/ \E k \in 1..Len(UpperCase) : UpperCase[k] = u /\ LowerCase[k] = c

\* after leading white space the query begins, in any case, with a keyword
BeginsWithKeyword(q) ==
    \E k \in 1..Len(q), kw \in {KwSelect, KwWith, KwPragma} :
        /\ \A i \in 1..(k - 1) : q[i] \in WhiteSpace
        /\ Len(q) >= k + Len(kw) - 1
        /\ \A i \in 1..Len(kw) : CaseEq(q[k + i - 1], kw[i])

ReadQueries == {q \in SqlQueries : BeginsWithKeyword(q)}

\* C13: executeQuery on a connected client calls stmt.all() and returns its
\* rows exactly when the query is a read query; any other query is run with
\* stmt.run() and returns one row carrying changes, lastInsertRowid and a
\* message.
C13_SqliteClassification ==
    [][(sqlite'.n = sqlite.n + 1 /\ sqlite.db)
        => /\ (sqlite'.stmt = "all") <=> (sqlite'.query \in ReadQueries)
           /\ (sqlite'.stmt = "run") <=> (sqlite'.query \notin ReadQueries)
           /\ (sqlite'.stmt = "all" /\ sqlite'.driver.ok)
                => sqlite'.result = sqlite'.driver
           /\ (sqlite'.stmt = "run" /\ sqlite'.driver.ok)
                => /\ sqlite'.result.ok
                   /\ Len(sqlite'.result.value) = 1
                   /\ DOMAIN sqlite'.result.value[1] =
                        {"changes", "lastInsertRowid", "message"}
                   /\ sqlite'.result.value[1].changes = sqlite'.driver.value.changes
                   /\ sqlite'.result.value[1].lastInsertRowid =
                        sqlite'.driver.value.lastInsertRowid]_vars

\* ' select' with leading white space returned two rows
C13_Witness ==
    /\ sqlite.db
    /\ sqlite.query = <<" ", "s", "e", "l", "e", "c", "t">>
    /\ sqlite.stmt = "all"
    /\ sqlite.result = Returned(<<"row1", "row2">>)

(***************************************************************************)
(* Properties of the Mongo interpreter (SpecMongo).                        *)
(***************************************************************************)
\* the queries db.<collection>.find(<args>) and db.<collection>.aggregate(<args>)
\* of the model, possibly surrounded by white space, with the collection and
\* the argument text they are made of
Calls(method) ==
    {[query |-> lead \o <<"d", "b", ".">> \o ShellCall(collection, method, args),
      collection |-> collection, args |-> args] :
        lead \in MongoLeads, collection \in MongoCollections \ {<<>>},
        args \in {a \in MongoArgs : \A i \in 1..Len(a) : a[i] \notin {"(", ")"}}}

FindCalls == Calls(Find)
AggregateCalls == Calls(Aggregate)

\* the call of the set whose query executeQuery has just been given
CallOf(calls) == CHOOSE c \in calls : c.query = mongo'.query

Started(calls) ==
    /\ mongo'.n = mongo.n + 1
    /\ \E c \in calls : c.query = mongo'.query

Blank(args) == Trim(args) = <<>>

\* C11 as stated: a find whose argument text evaluates issues exactly one
\* find on the collection with the evaluated value as the filter, a find with
\* missing or blank argument text one with the empty filter; the result is the
\* list toArray() gave.
C11_FindAsStated ==
    [][/\ (Started(FindCalls)
            /\ (Blank(CallOf(FindCalls).args) \/ EvalParams(CallOf(FindCalls).args).ok))
          => /\ mongo'.pc = "awaiting"
             /\ mongo'.calls = mongo.calls + 1
             /\ mongo'.call.op = "find"
             /\ mongo'.call.collection = CallOf(FindCalls).collection
             /\ mongo'.call.arg =
                  IF Blank(CallOf(FindCalls).args) THEN JsEmptyObject
                  ELSE EvalParams(CallOf(FindCalls).args).value
       /\ (mongo.pc = "awaiting" /\ mongo.call.op = "find" /\ mongo'.pc = "done"
            /\ mongo'.driver.ok)
          => mongo'.result = mongo'.driver]_vars

\* C11 amended: as above, but the filter is the empty filter also when the
\* argument text evaluates to a falsy value.
C11_Find ==
    [][/\ (Started(FindCalls)
            /\ (Blank(CallOf(FindCalls).args) \/ EvalParams(CallOf(FindCalls).args).ok))
          => /\ mongo'.pc = "awaiting"
             /\ mongo'.calls = mongo.calls + 1
             /\ mongo'.handles = mongo.handles + 1
             /\ mongo'.call.op = "find"
             /\ mongo'.call.collection = CallOf(FindCalls).collection
             /\ mongo'.call.arg =
                  IF Blank(CallOf(FindCalls).args) THEN JsEmptyObject
                  ELSE IF Truthy(EvalParams(CallOf(FindCalls).args).value)
                  THEN EvalParams(CallOf(FindCalls).args).value
                  ELSE JsEmptyObject
       /\ (mongo.pc = "awaiting" /\ mongo.call.op = "find" /\ mongo'.pc = "done"
            /\ mongo'.driver.ok)
          => mongo'.result = mongo'.driver]_vars

\* db.u_1.find() returned the two documents of a find with the empty filter
C11_Witness ==
    /\ mongo.pc = "done"
    /\ mongo.query = <<"d", "b", ".">> \o ShellCall(<<"u", "_", "1">>, Find, <<>>)
    /\ mongo.call = [op |-> "find", collection |-> <<"u", "_", "1">>,
                     arg |-> JsEmptyObject]
    /\ mongo.result = Returned(<<"doc1", "doc2">>)

\* C12: an aggregate whose argument text evaluates runs the evaluated value as
\* the pipeline when it is a list and the one-element list of it otherwise, so
\* that db.c.aggregate(X) and db.c.aggregate([X]) run the same pipeline.
C12_AggregateShorthand ==
    [][(Started(AggregateCalls) /\ EvalParams(CallOf(AggregateCalls).args).ok)
        => LET c == CallOf(AggregateCalls)
               v == EvalParams(c.args).value
               wrapped == EvalParams(<<"[">> \o c.args \o <<"]">>).value
           IN /\ mongo'.pc = "awaiting"
              /\ mongo'.calls = mongo.calls + 1
              /\ mongo'.call.op = "aggregate"
              /\ mongo'.call.collection = c.collection
              /\ mongo'.call.arg = IF v.kind = "array" THEN v ELSE JsArray(<<v>>)
              /\ v.kind # "array" => mongo'.call.arg = wrapped]_vars

\* db.u.aggregate({}) ran the pipeline [{}]
C12_Witness ==
    /\ mongo.query = <<"d", "b", ".">> \o ShellCall(<<"u">>, Aggregate, <<"{", "}">>)
    /\ mongo.call = [op |-> "aggregate", collection |-> <<"u">>,
                     arg |-> JsArray(<<JsEmptyObject>>)]
    /\ mongo.pc = "done"
    /\ mongo.result.ok

\* the queries db.<collection>.<method>(<args>), possibly surrounded by white
\* space, whose method is neither find nor aggregate
UnsupportedCalls ==
    {lead \o <<"d", "b", ".">> \o ShellCall(collection, method, args) :
        lead \in MongoLeads, collection \in MongoCollections \ {<<>>},
        method \in MongoMethods \ {Find, Aggregate, <<>>}, args \in MongoArgs}

Completes(p) == resp'.n = p /\ resp.n # p

\* the records of the persisted list with the given id
RecordsOf(list, id) == {i \in 1..Len(list) : list[i].id = id}

\* the clients that CONNECT_DB handed out for id as the live connection and
\* that removeActiveClient has not taken out of the registry since
HandedOut(id) ==
    {c \in 1..Len(clients) :
        /\ clients[c].by = "CONNECT_DB"
        /\ clients[c].id = id
        /\ clients[c].state = "connected"
        /\ clients[c].installed
        /\ ~clients[c].removed}

\* C1: a CONNECT_DB for an id that has a registry entry, under a passphrase
\* that decrypts the stored record, returns success with the schema cached in
\* the entry, and constructs and connects no client; the cached schema is the
\* one the installing call returned, for the client that call connected.
C1_IdempotentConnect ==
    [][/\ \A p \in Requests, id \in Ids, key \in StoreKeys :
            (/\ ConnectDb(p, id, key)
             /\ id \in DOMAIN ACTIVE_CLIENTS
             /\ getDecryptedConnection(id, key).ok)
            => /\ Completes(p)
               /\ resp'.op = "CONNECT_DB"
               /\ resp'.envelope.success
               /\ resp'.envelope.data.tables = ACTIVE_CLIENTS[id].tables
               /\ clients' = clients
               /\ ACTIVE_CLIENTS' = ACTIVE_CLIENTS
       /\ \A p \in Requests :
            (ConnectDbIntrospected(p) /\ resp'.envelope.success)
            => /\ ACTIVE_CLIENTS'[resp'.id].tables = resp'.envelope.data.tables
               /\ ACTIVE_CLIENTS'[resp'.id].client = procs[p].client
               /\ clients[procs[p].client].state = "connected"]_vars

\* a second CONNECT_DB was answered from the registry entry that the first
\* one installed, and one client exists
C1_Witness ==
    /\ resp.n = 2
    /\ resp.op = "CONNECT_DB"
    /\ resp.envelope.success
    /\ resp.envelope.data.message = "(undefined)"
    /\ resp.id \in DOMAIN ACTIVE_CLIENTS
    /\ resp.envelope.data.tables = ACTIVE_CLIENTS[resp.id].tables
    /\ Len(clients) = 1
    /\ clients[1].state = "connected"

\* C2: in every interleaving of CONNECT_DB requests, at most one connected
\* client has been handed out for an id, and it is the client that the
\* registry entry of the id holds.
C2_SingleFlight ==
    \A id \in Ids :
        /\ Cardinality(HandedOut(id)) <= 1
        /\ \A c \in HandedOut(id) :
            id \in DOMAIN ACTIVE_CLIENTS /\ ACTIVE_CLIENTS[id].client = c

\* C3: when DISCONNECT_DB or DELETE_CONNECTION completes, removeActiveClient
\* has completed: the registry has no entry for the id, whatever the engine and
\* whether disconnect() returned or threw, and the envelope is a success.
C3_RemovalClearsEntry ==
    [][\A p \in Requests :
        (Completes(p) /\ resp'.op \in {"DISCONNECT_DB", "DELETE_CONNECTION"})
        => /\ resp'.id \notin DOMAIN ACTIVE_CLIENTS'
           /\ resp'.envelope.success]_vars

\* a DISCONNECT_DB returned success although disconnect() threw, and the
\* entry is gone
C3_Witness ==
    /\ resp.n > 0
    /\ resp.op = "DISCONNECT_DB"
    /\ resp.envelope.success
    /\ resp.id \notin DOMAIN ACTIVE_CLIENTS
    /\ \E c \in 1..Len(clients) :
        /\ clients[c].id = resp.id
        /\ clients[c].disc = "threw"
        /\ clients[c].removed

\* C4: when DELETE_CONNECTION completes, the registry has no entry for the id,
\* the persisted list is the previous one without the records of the id, and
\* the envelope is a success; for an id without a registry entry it completes
\* at once and leaves the registry and the clients as they were.
C4_DeleteTearsDown ==
    [][/\ \A p \in Requests :
            (Completes(p) /\ resp'.op = "DELETE_CONNECTION")
            => /\ resp'.id \notin DOMAIN ACTIVE_CLIENTS'
               /\ RecordsOf(store', resp'.id) = {}
               /\ store' = SelectSeq(store, LAMBDA conn : conn.id # resp'.id)
               /\ resp'.envelope.success
       /\ \A p \in Requests, id \in Ids :
            (DeleteConnection(p, id) /\ id \notin DOMAIN ACTIVE_CLIENTS)
            => /\ Completes(p)
               /\ ACTIVE_CLIENTS' = ACTIVE_CLIENTS
               /\ clients' = clients]_vars

\* a DELETE_CONNECTION of a persisted connection with a live entry completed
C4_Witness ==
    /\ resp.n > 0
    /\ resp.op = "DELETE_CONNECTION"
    /\ resp.envelope.success
    /\ resp.id \notin DOMAIN ACTIVE_CLIENTS
    /\ store = <<>>
    /\ \E c \in 1..Len(clients) :
        /\ clients[c].id = resp.id
        /\ clients[c].installed
        /\ clients[c].removed

\* C5: a RUN_QUERY for an id without a registry entry completes at once with
\* the NO_ACTIVE_CONNECTION error, retryable, and constructs no client, runs
\* no query, and leaves the registry, the persisted list and the history alone.
C5_NoImplicitReconnect ==
    [][\A p \in Requests, id \in Ids, query \in Queries :
        (RunQuery(p, id, query) /\ id \notin DOMAIN ACTIVE_CLIENTS)
        => /\ Completes(p)
           /\ resp'.op = "RUN_QUERY"
           /\ resp'.envelope.success = FALSE
           /\ resp'.envelope.errorType = "CONNECTION_ERROR"
           /\ resp'.envelope.errorCode = "NO_ACTIVE_CONNECTION"
           /\ resp'.envelope.retryable = TRUE
           /\ clients' = clients
           /\ ACTIVE_CLIENTS' = ACTIVE_CLIENTS
           /\ store' = store
           /\ history' = history]_vars

\* a RUN_QUERY was refused for a persisted connection that is not connected
C5_Witness ==
    /\ resp.n > 0
    /\ resp.op = "RUN_QUERY"
    /\ ~resp.envelope.success
    /\ resp.envelope.errorCode = "NO_ACTIVE_CONNECTION"
    /\ RecordsOf(store, resp.id) # {}
    /\ resp.id \notin DOMAIN ACTIVE_CLIENTS

\* C6: no entry leaves the registry without disconnect() having been called
\* on its client, whatever the engine.
C6_DisconnectBeforeRemoval ==
    \A c \in 1..Len(clients) : clients[c].removed => clients[c].disc # "none"

(***************************************************************************)
(* Properties of the crypto module and the secure store (SpecStore).       *)
(***************************************************************************)
PersistedFields == {"id", "name", "type", "encryptedConfig"}

\* a get that directly follows a successful save, for the saved id
GetAfterSave ==
    /\ ret.op = "get"
    /\ ret.after.op = "save"
    /\ ret.after.ok
    /\ ret.id = ret.after.config.id

\* C7: after any sequence of save, update-name, delete and import, every
\* persisted record has exactly the fields id, name, type and encryptedConfig,
\* and its encryptedConfig is an encrypted envelope, so that no payload is
\* persisted verbatim.
C7_NoPlaintextPersisted ==
    \A i \in 1..Len(store) :
        /\ DOMAIN store[i] = PersistedFields
        /\ store[i].encryptedConfig.fmt = "envelope"

C9_WrongKeyEveryPassphrase ==
    /\ (ret.op = "decrypt" /\ ret.p1 # ret.p2) => ~ret.result.ok
    /\ (GetAfterSave /\ ret.key # ret.after.key)
        => (~ret.result.ok
            /\ ret.result.message = "Failed to decrypt configuration. Wrong encryption key?")

\* C9 amended: decrypting under a passphrase whose UTF-8 bytes differ fails;
\* a get under such a passphrase fails with the decryption error when the saved
\* record is the first with that id.
C9_WrongKey ==
    /\ (ret.op = "decrypt" /\ Utf8Encode(ret.p1) # Utf8Encode(ret.p2)) => ~ret.result.ok
    /\ (GetAfterSave /\ Utf8Encode(ret.key) # Utf8Encode(ret.after.key)
            /\ FindIndex(ret.id) = Len(store))
        => (~ret.result.ok
            /\ ret.result.message = "Failed to decrypt configuration. Wrong encryption key?")

\* an envelope written under 'p' was refused under 'q'
C9_Witness ==
    /\ ret.op = "decrypt"
    /\ ret.p1 = <<112>>
    /\ ret.p2 = <<113>>
    /\ ~ret.result.ok

(***************************************************************************)
(* Properties of the test and save flows                                   *)
(***************************************************************************)

\* the step is one of the invocation p of the handler op: its start, one of
\* its resumptions, or its return
StepOf(p, op) ==
    \/ /\ p \notin DOMAIN procs
       /\ nreq' = p
       /\ \/ p \in DOMAIN procs' /\ procs'[p].op = op
          \/ Completes(p) /\ resp'.op = op
    \/ /\ p \in DOMAIN procs
       /\ procs[p].op = op
       /\ (p \notin DOMAIN procs' \/ procs'[p] # procs[p])

\* C14: no step of TEST_CONNECTION changes the persisted connection list or
\* the live-client registry, whatever the outcome; and when it returns
\* success the client it created was connected and is now disconnected.
C14_TestConnectionFrame ==
    [][\A p \in SaveRequests :
          StepOf(p, "TEST_CONNECTION") =>
              /\ store' = store
              /\ ACTIVE_CLIENTS' = ACTIVE_CLIENTS
              /\ (Completes(p) /\ resp'.envelope.success =>
                     /\ p \in DOMAIN procs
                     /\ clients[procs[p].client].by = "TEST_CONNECTION"
                     /\ clients[procs[p].client].state = "connected"
                     /\ clients'[procs[p].client].state = "closed"
                     /\ clients'[procs[p].client].disc = "ok")]_vars

\* a test returned success next to a persisted record
C14_Witness ==
    /\ resp.n # 0
    /\ resp.op = "TEST_CONNECTION"
    /\ resp.envelope.success
    /\ Len(store) > 0
    /\ \E c \in 1..Len(clients) :
          clients[c].by = "TEST_CONNECTION" /\ clients[c].state = "closed"

\* C15: SAVE_CONNECTION changes the persisted list only in the step after
\* connect() and schema introspection both succeeded, and an invocation that
\* returns success = false (the final disconnect() throwing included) has
\* appended nothing.
C15_SaveOnlyOnSuccess ==
    [][\A p \in SaveRequests :
          StepOf(p, "SAVE_CONNECTION") =>
              /\ (store' # store =>
                     /\ p \in DOMAIN procs
                     /\ procs[p].pc = "introspect"
                     /\ clients[procs[p].client].state = "connected")
              /\ (Completes(p) /\ ~resp'.envelope.success =>
                     p \notin DOMAIN procs \/ ~procs[p].appended)]_vars

(***************************************************************************)
(* Properties of the classification of CONNECT_DB failures                 *)
(***************************************************************************)

\* C16: CONNECT_DB returns ENCRYPTION_ERROR when decrypting the stored
\* config fails, and an invocation that got past decryption (it was
\* suspended on the engine's connect() or on schema introspection) never
\* returns ENCRYPTION_ERROR, whatever the driver's error message.
C16_EncryptionErrorOnlyForDecrypt ==
    [][\A p \in Requests :
          Completes(p) /\ resp'.op = "CONNECT_DB" /\ ~resp'.envelope.success =>
              /\ (p \notin DOMAIN procs /\ FindIndex(resp'.id) # 0
                    /\ createDatabaseClient(store[FindIndex(resp'.id)], "CONNECT_DB").ok
                    => resp'.envelope.errorType = "ENCRYPTION_ERROR")
              /\ (p \in DOMAIN procs
                    => resp'.envelope.errorType # "ENCRYPTION_ERROR")]_vars

(***************************************************************************)
(* Properties of IMPORT_CONNECTIONS                                        *)
(***************************************************************************)

\* C17: an import of a file with a wrong format tag fails in validation
\* whether or not the passphrase opens it (the tag is checked before
\* decryption); one whose envelope does not open fails as an encryption
\* error; one whose connections is missing or not a list fails in
\* validation; only a file that passed all three is accepted; and every
\* failed import leaves the persisted list as it was.
C17_ImportValidates ==
    ret.op = "import" =>
        LET opens == Utf8Encode(ret.file.key) = Utf8Encode(ret.key)
            listed == ret.file.content.kind = "list"
            e == ret.resp
        IN /\ (ret.file.format # FormatTag =>
                  ~e.success /\ e.errorType = "VALIDATION_ERROR")
           /\ (ret.file.format = FormatTag /\ ~opens =>
                  ~e.success /\ e.errorType = "ENCRYPTION_ERROR")
           /\ (ret.file.format = FormatTag /\ opens /\ ~listed =>
                  ~e.success /\ e.errorType = "VALIDATION_ERROR")
           /\ (e.success => ret.file.format = FormatTag /\ opens /\ listed)
           /\ (~e.success => store = ret.before)

\* a file with a wrong tag, given with a passphrase that does not open it,
\* was refused next to a persisted record
C17_Witness ==
    /\ ret.op = "import"
    /\ ret.file.format # FormatTag
    /\ Utf8Encode(ret.file.key) # Utf8Encode(ret.key)
    /\ ~ret.resp.success
    /\ store # <<>>

\* the number of places of list that hold the record r
Count(list, r) == Cardinality({i \in 1..Len(list) : list[i] = r})

IdsOf(list) == {list[i].id : i \in 1..Len(list)}

\* C18: after a successful import, under 'replace' the persisted list is the
\* imported list; under 'merge' every existing record is kept and an imported
\* record is added exactly when its id was not persisted; under
\* 'skip-duplicates' every existing record is kept and every imported record
\* is added, as it is when its id is free and under another id with the name
\* suffixed ' (Imported)' when its id is taken.
C18_ImportStrategies ==
    ret.op = "import" /\ ret.resp.success =>
        LET before == ret.before
            imported == ret.file.content.connections
            kept == \A i \in 1..Len(before) :
                        Count(store, before[i]) >= Count(before, before[i])
            fresh == {j \in 1..Len(imported) : imported[j].id \notin IdsOf(before)}
            taken(j) == \/ imported[j].id \in IdsOf(before)
                        \/ \E k \in 1..(j - 1) : imported[k].id = imported[j].id
        IN /\ ret.strategy = "replace" => store = imported
           /\ ret.strategy = "merge" =>
                 /\ kept
                 /\ Len(store) = Len(before) + Cardinality(fresh)
                 /\ \A j \in fresh : \E k \in 1..Len(store) : store[k] = imported[j]
                 /\ \A k \in 1..Len(store) :
                       store[k].id \in IdsOf(before) =>
                           \E i \in 1..Len(before) : before[i] = store[k]
           /\ ret.strategy = "skip-duplicates" =>
                 /\ kept
                 /\ Len(store) = Len(before) + Len(imported)
                 /\ \A j \in 1..Len(imported) :
                       \E k \in 1..Len(store) :
                           IF taken(j)
                           THEN /\ store[k].id # imported[j].id
                                /\ store[k].name = Append(imported[j].name, " (Imported)")
                                /\ store[k].encryptedConfig = imported[j].encryptedConfig
                           ELSE store[k] = imported[j]

\* an import of two records, one of a persisted id, went through under
\* 'skip-duplicates' or 'merge'
C18_Witness ==
    /\ ret.op = "import"
    /\ ret.resp.success
    /\ ret.strategy # "replace"
    /\ Len(ret.before) = 1
    /\ Len(ret.file.content.connections) = 2
    /\ \E j \in 1..2 : ret.file.content.connections[j].id \in IdsOf(ret.before)

(***************************************************************************)
(* Properties of ErrorHandler                                              *)
(***************************************************************************)
ErrorOps ==
    {"handleDatabaseError", "handleFileError", "handleValidationError",
     "handleEncryptionError", "handleUnknownError", "createError"}

\* C19: every failure envelope made from an ErrorHandler error has
\* success = false and the fields error, errorType, retryable and timestamp;
\* it is retryable when its type is CONNECTION_ERROR or TIMEOUT_ERROR and not
\* retryable when its type is AUTHENTICATION_ERROR, QUERY_ERROR,
\* VALIDATION_ERROR or ENCRYPTION_ERROR.
C19_RetryablePolicy ==
    ret.op \in ErrorOps =>
        LET e == ret.envelope
        IN /\ {"success", "error", "errorType", "retryable", "timestamp"} \subseteq DOMAIN e
           /\ e.success = FALSE
           /\ (e.errorType \in {"CONNECTION_ERROR", "TIMEOUT_ERROR"} => e.retryable)
           /\ (e.errorType \in {"AUTHENTICATION_ERROR", "QUERY_ERROR",
                                "VALIDATION_ERROR", "ENCRYPTION_ERROR"} => ~e.retryable)

\* a driver's timeout was translated into a retryable TIMEOUT_ERROR
C19_Witness ==
    /\ ret.op = "handleDatabaseError"
    /\ ret.error.message = "timeout expired"
    /\ ret.envelope.errorType = "TIMEOUT_ERROR"
    /\ ret.envelope.retryable

(***************************************************************************)
(* Properties of saveEncryptedConnection                                   *)
(***************************************************************************)

\* the payload a config carries for the engine named type
SubPayload(config, type) ==
    CASE type = "postgresql" -> config.postgresql
      [] type = "mongodb" -> config.mongodb
      [] type = "mysql" -> config.mysql
      [] type = "sqlite3" -> config.sqlite3

\* the record appended by the last save opens, under the passphrase of the
\* save, to the JSON text of the payload of the config's own type
OpensToOwnPayload ==
    /\ store = Append(ret.before, store[Len(store)])
    /\ store[Len(store)].type = ret.config.type
    /\ decrypt(store[Len(store)].encryptedConfig, ret.key)
          = Returned(JsonStringify(SubPayload(ret.config, ret.config.type)).value)

\* C20: saveEncryptedConnection with a config of one of the four engines
\* appends a record that holds the encrypted payload of that engine, and
\* with a config of any other type it fails and persists no record.
C20_SaveEncryptedByType ==
    ret.op = "saveEncrypted" =>
        IF ret.config.type \in DbType
        THEN ret.ok /\ Len(store) = Len(ret.before) + 1 /\ OpensToOwnPayload
        ELSE ~ret.ok /\ store = ret.before

(***************************************************************************)
(* Properties of UPDATE_CONNECTION                                         *)
(***************************************************************************)

\* C21: an UPDATE_CONNECTION(id, name) with a name that is not blank gives
\* the records of that id the name with its leading and trailing white space
\* removed, and keeps their id, type and encryptedConfig, every record of
\* another id, the length and order of the list, the registry and the
\* clients; when no record has the id the list is unchanged.
C21_UpdateNameOnly ==
    [][\A p \in UpdateRequests, id \in Ids, name \in UpdateNames :
          UpdateConnection(p, id, name) /\ (\E k \in 1..Len(name) : name[k] \notin WhiteSpace)
          => /\ resp'.envelope.success
             /\ ACTIVE_CLIENTS' = ACTIVE_CLIENTS
             /\ clients' = clients
             /\ Len(store') = Len(store)
             /\ \A i \in 1..Len(store) :
                   /\ store'[i].id = store[i].id
                   /\ store'[i].type = store[i].type
                   /\ store'[i].encryptedConfig = store[i].encryptedConfig
                   /\ (store[i].id # id => store'[i] = store[i])
                   /\ (store[i].id = id =>
                          /\ store'[i].name # <<>>
                          /\ store'[i].name[1] \notin WhiteSpace
                          /\ store'[i].name[Len(store'[i].name)] \notin WhiteSpace
                          /\ \E lead, trail \in {<<>>, <<" ">>, <<"\t">>} :
                                name = lead \o store'[i].name \o trail)
             /\ (RecordsOf(store, id) = {} => store' = store)]_vars

\* the record that is second in the list was renamed while a connection is
\* live
C21_Witness ==
    /\ resp.n # 0
    /\ resp.op = "UPDATE_CONNECTION"
    /\ resp.envelope.success
    /\ Len(store) = 2
    /\ store[1].name = <<"n1">>
    /\ store[2].name = <<"n2">>
    /\ DOMAIN ACTIVE_CLIENTS # {}

(***************************************************************************)
(* Properties of the engines' connect failures (SpecEngines)               *)
(***************************************************************************)

\* C22: when the MySQL driver rejects the credentials during connect
\* (ER_ACCESS_DENIED_ERROR), TEST_CONNECTION, SAVE_CONNECTION and CONNECT_DB
\* return AUTHENTICATION_ERROR with retryable = false.
C22_MySqlAuthClassified ==
    [][\A p \in EngineRequests :
          /\ Completes(p)
          /\ resp'.op \in {"TEST_CONNECTION", "SAVE_CONNECTION", "CONNECT_DB"}
          /\ p \in DOMAIN procs
          /\ procs[p].pc = "connect"
          /\ clients'[procs[p].client].type = "mysql"
          /\ clients'[procs[p].client].signal = "ER_ACCESS_DENIED_ERROR"
          => /\ ~resp'.envelope.success
             /\ resp'.envelope.errorType = "AUTHENTICATION_ERROR"
             /\ ~resp'.envelope.retryable]_vars

(***************************************************************************)
(* Properties of getSchemaVisualization(id, config) and of the registry    *)
(* under interleaved handlers (Spec)                                       *)
(***************************************************************************)

\* C23: a CONNECT_DB changes the registry only in the step after both
\* connect() and schema introspection succeeded; that step sets the entry
\* of its id to the client it created with the tables it returns and leaves
\* the other entries alone; and when connect() or introspection fails the
\* handler gets the error and the registry is as it was.
C23_InstallOnlyOnSuccess ==
    [][\A p \in Requests :
          StepOf(p, "CONNECT_DB") =>
              /\ (ACTIVE_CLIENTS' # ACTIVE_CLIENTS =>
                     /\ p \in DOMAIN procs
                     /\ procs[p].pc = "introspect"
                     /\ clients[procs[p].client].state = "connected"
                     /\ Completes(p)
                     /\ resp'.envelope.success
                     /\ DOMAIN ACTIVE_CLIENTS' = DOMAIN ACTIVE_CLIENTS \cup {procs[p].id}
                     /\ ACTIVE_CLIENTS'[procs[p].id].client = procs[p].client
                     /\ ACTIVE_CLIENTS'[procs[p].id].tables = resp'.envelope.data.tables
                     /\ \A id \in DOMAIN ACTIVE_CLIENTS \ {procs[p].id} :
                           ACTIVE_CLIENTS'[id] = ACTIVE_CLIENTS[id])
              /\ (Completes(p) /\ p \in DOMAIN procs /\ resp'.envelope.success =>
                     ACTIVE_CLIENTS' # ACTIVE_CLIENTS)
              /\ (Completes(p) /\ ~resp'.envelope.success =>
                     ACTIVE_CLIENTS' = ACTIVE_CLIENTS)]_vars

\* a connect failed in introspection while another connect's entry of the
\* same id is live
C23_Witness ==
    /\ resp.n # 0
    /\ resp.op = "CONNECT_DB"
    /\ ~resp.envelope.success
    /\ resp.id \in DOMAIN ACTIVE_CLIENTS
    /\ \E c \in 1..Len(clients) :
          /\ clients[c].id = resp.id
          /\ clients[c].state = "connected"
          /\ ~clients[c].installed
          /\ ACTIVE_CLIENTS[resp.id].client # c

(***************************************************************************)
(* Properties of clearAllClients (SpecClear).                              *)
(***************************************************************************)
\* C24: when clearAllClients completes the registry is empty, whatever the
\* outcome of the disconnect() calls it awaited, and it has processed each
\* entry present at its start once.
C24_ClearEmptiesRegistry ==
    [][\A p \in ClearRequests :
          Completes(p) /\ resp'.op = "clearAllClients" =>
              /\ ACTIVE_CLIENTS' = EmptyMap
              /\ resp'.envelope.done = resp'.envelope.start]_vars

\* the part of C24 that does not depend on what else runs: each id of the
\* snapshot is processed once, in the snapshot's order
C24_EachSnapshotEntryOnce ==
    [][\A p \in ClearRequests :
          Completes(p) /\ resp'.op = "clearAllClients" =>
              resp'.envelope.done = resp'.envelope.start]_vars

\* a clearAllClients that awaited a disconnect() has returned, and the
\* registry holds an entry
C24_Witness ==
    /\ resp.n # 0
    /\ resp.op = "clearAllClients"
    /\ resp.envelope.start # <<>>
    /\ \E c \in 1..Len(clients) : clients[c].removed /\ clients[c].disc # "none"
    /\ ACTIVE_CLIENTS # EmptyMap

(***************************************************************************)
(* Properties of DELETE_CONNECTION against an in-flight CONNECT_DB (Spec). *)
(***************************************************************************)
\* C25: whenever no handler is in progress, every id in the live registry
\* has a persisted record; in particular a DELETE_CONNECTION that completed
\* while a CONNECT_DB of the same id was suspended leaves no entry for the id
\* once both have finished.
C25_DeleteWinsOverConnect ==
    procs = EmptyMap =>
        \A id \in DOMAIN ACTIVE_CLIENTS : RecordsOf(store, id) # {}

\* no handler is in progress, a DELETE_CONNECTION has removed the record of
\* an id, and a CONNECT_DB of that id returned success after it
C25_Witness ==
    /\ procs = EmptyMap
    /\ resp.n # 0
    /\ resp.op = "CONNECT_DB"
    /\ resp.envelope.success
    /\ RecordsOf(store, resp.id) = {}

(***************************************************************************)
(* Properties of a client while removeActiveClient tears it down (Spec).   *)
(***************************************************************************)
\* C26: once removeActiveClient has started disconnecting an entry's client,
\* no RUN_QUERY dispatches executeQuery to that client, and no CONNECT_DB
\* returns success from that entry's cached schema.
C26_NoUseDuringTeardown ==
    [][/\ \A c \in 1..Len(clients) :
             clients[c].disc # "none" => clients'[c].queries = clients[c].queries
       /\ \A p \in Requests :
             (/\ p \notin DOMAIN procs
              /\ Completes(p)
              /\ resp'.op = "CONNECT_DB"
              /\ resp'.envelope.success)
             => clients[ACTIVE_CLIENTS[resp'.id].client].disc = "none"]_vars

\* a query was dispatched to a client whose disconnect() is pending
C26_Witness ==
    \E p \in DOMAIN procs :
        /\ procs[p].op = "RUN_QUERY"
        /\ clients[procs[p].client].disc = "pending"

(***************************************************************************)
(* Properties of the clients of failed handlers (SpecEngines).             *)
(***************************************************************************)
\* C27: when SAVE_CONNECTION or CONNECT_DB returns a failure after connect()
\* succeeded on the client the handler created, disconnect() has been called
\* on that client.
C27_NoLeakOnFailure ==
    [][\A p \in DOMAIN procs :
          (/\ procs[p].op \in {"SAVE_CONNECTION", "CONNECT_DB"}
           /\ Completes(p)
           /\ ~resp'.envelope.success
           /\ clients[procs[p].client].state = "connected")
          => clients'[procs[p].client].disc # "none"]_vars

\* no handler is in progress and a client that SAVE_CONNECTION or CONNECT_DB
\* connected is still connected, was never disconnected and is not in the
\* registry
C27_Witness ==
    /\ procs = EmptyMap
    /\ \E c \in 1..Len(clients) :
          /\ clients[c].by \in {"SAVE_CONNECTION", "CONNECT_DB"}
          /\ clients[c].state = "connected"
          /\ clients[c].disc = "none"
          /\ \A id \in DOMAIN ACTIVE_CLIENTS : ACTIVE_CLIENTS[id].client # c

\* C28: a TEST_CONNECTION that returned a failure because connect() threw
\* leaves no driver handle open: a connect() that threw after the handle
\* was opened has closed it.
C28_FailedConnectClosesHandle ==
    [][\A p \in DOMAIN procs :
          (/\ procs[p].op = "TEST_CONNECTION"
           /\ procs[p].pc = "connect"
           /\ Completes(p)
           /\ ~resp'.envelope.success)
          => clients'[procs[p].client].state \in {"failed", "closed"}]_vars

\* a connect() threw after the driver handle was opened, the handler has
\* returned and the handle is open
C28_Witness ==
    /\ procs = EmptyMap
    /\ resp.n # 0
    /\ ~resp.envelope.success
    /\ \E c \in 1..Len(clients) :
          /\ clients[c].state = "half-open"
          /\ clients[c].type \in {"mongodb", "mysql", "sqlite3"}

(***************************************************************************)
(* Uniqueness of the persisted ids (SpecStore, which starts from the empty *)
(* store and imports only lists with distinct ids).                        *)
(***************************************************************************)
\* C29: no two persisted records share an id, after any sequence of saves,
\* updates, deletes and imports from the empty store.
C29_UniqueIds ==
    \A i, j \in 1..Len(store) : store[i].id = store[j].id => i = j

\* two records with one id are persisted, and the last call was a save
C29_Witness ==
    /\ ret.op = "save"
    /\ ret.ok
    /\ \E i, j \in 1..Len(store) : i # j /\ store[i].id = store[j].id

(***************************************************************************)
(* CONNECT_DB decrypts before it reads the registry (Spec).                *)
(***************************************************************************)
\* C30: a CONNECT_DB whose passphrase does not open the stored record, or
\* whose id has no record, returns a failure without tables and leaves the
\* registry and every client as they were, also when the id has a live
\* entry; with a record present the failure is an ENCRYPTION_ERROR.
C30_DecryptBeforeRegistry ==
    [][\A p \in Requests, id \in Ids, key \in StoreKeys :
          ConnectDb(p, id, key) /\ ~getDecryptedConnection(id, key).ok =>
              /\ Completes(p)
              /\ resp'.op = "CONNECT_DB"
              /\ ~resp'.envelope.success
              /\ "data" \notin DOMAIN resp'.envelope
              /\ ACTIVE_CLIENTS' = ACTIVE_CLIENTS
              /\ clients' = clients
              /\ (FindIndex(id) # 0 => resp'.envelope.errorType = "ENCRYPTION_ERROR")]_vars

\* the second request was a CONNECT_DB that failed with ENCRYPTION_ERROR
\* before it constructed a client, for an id whose live entry the first
\* request installed
C30_Witness ==
    /\ resp.n = 2
    /\ resp.op = "CONNECT_DB"
    /\ ~resp.envelope.success
    /\ resp.envelope.errorType = "ENCRYPTION_ERROR"
    /\ Len(clients) = 1
    /\ clients[1].installed
    /\ resp.id \in DOMAIN ACTIVE_CLIENTS
    /\ ACTIVE_CLIENTS[resp.id].client = 1

\* the same CONNECT_DB for an id with no record, while another id is live
C30_WitnessNoRecord ==
    /\ resp.n # 0
    /\ resp.op = "CONNECT_DB"
    /\ ~resp.envelope.success
    /\ RecordsOf(store, resp.id) = {}
    /\ ACTIVE_CLIENTS # EmptyMap

====
